---- MODULE Spec2Model ----
(***************************************************************************)
(* A model of mc-sftp: the SFTP request handler (pkg/mcsftp), the SCP      *)
(* session handler (pkg/mcscp) and the path helpers (pkg/mc) in front of   *)
(* the Materials Commons Repository.                                       *)
(*                                                                         *)
(* Strings that the code takes apart (paths, slugs) are sequences of       *)
(* one-character strings; strings it only passes around (error texts,      *)
(* method names) are TLA+ strings.                                         *)
(***************************************************************************)
EXTENDS Integers, Sequences, FiniteSets, TLC

----------------------------------------------------------------------------
(* Bounds of the model *)

\* How often the Project store's answers (existence, access) change in a session.
MaxStoreChanges == 1
\* Files uploaded at most (CreateFile is not called beyond it).
MaxFiles == 1
\* Bytes one upload streams or writes at most.
MaxBytes == 1
\* The calls of Close on one handle.
MaxCloses == 2
\* The characters of a sub-path handed to the path helpers, at most.
MaxPathLen == 6
\* The bytes of the buffer of one WriteAt call, at most.
MaxBuf == 2
\* The WriteAt calls that overlap on one handle, at most.
MaxCalls == 2
\* The entries of the snapshot of a listing, at most.
MaxEntries == 4
\* The length of the buffer of one ListAt call, at most.
MaxListBuf == 3

----------------------------------------------------------------------------
(* pkg/mc/util.go: the path helpers, with the parts of Go's strings and    *)
(* path/filepath packages they call.                                       *)

RECURSIVE SplitAcc(_, _, _, _)
SplitAcc(s, i, cur, acc) ==
    IF i > Len(s) THEN Append(acc, cur)
    ELSE IF s[i] = "/" THEN SplitAcc(s, i + 1, <<>>, Append(acc, cur))
    ELSE SplitAcc(s, i + 1, Append(cur, s[i]), acc)

\* strings.Split(s, "/")
Split(s) == SplitAcc(s, 1, <<>>, <<>>)

RECURSIVE JoinSegs(_)
\* strings.Join(segs, "/")
JoinSegs(segs) ==
    IF segs = <<>> THEN <<>>
    ELSE IF Len(segs) = 1 THEN segs[1]
    ELSE segs[1] \o <<"/">> \o JoinSegs(Tail(segs))

RECURSIVE CleanStack(_, _, _, _)
\* The element loop of filepath.Clean: drop "" and ".", let ".." remove the
\* element before it, drop ".." at the root, keep leading ".." of a relative path.
CleanStack(segs, i, rooted, out) ==
    IF i > Len(segs) THEN out
    ELSE LET e == segs[i] IN
         IF e = <<>> \/ e = <<".">> THEN CleanStack(segs, i + 1, rooted, out)
         ELSE IF e = <<".", ".">> THEN
              IF out # <<>> /\ out[Len(out)] # <<".", ".">>
                  THEN CleanStack(segs, i + 1, rooted, SubSeq(out, 1, Len(out) - 1))
              ELSE IF rooted THEN CleanStack(segs, i + 1, rooted, out)
              ELSE CleanStack(segs, i + 1, rooted, Append(out, e))
         ELSE CleanStack(segs, i + 1, rooted, Append(out, e))

\* filepath.Clean
Clean(path) ==
    IF path = <<>> THEN <<".">>
    ELSE LET rooted == path[1] = "/"
             body == JoinSegs(CleanStack(Split(path), 1, rooted, <<>>))
         IN IF rooted THEN <<"/">> \o body
            ELSE IF body = <<>> THEN <<".">> ELSE body

\* filepath.Join(a, b): the non-empty elements joined by "/", then cleaned.
Join(a, b) ==
    IF a = <<>> /\ b = <<>> THEN <<>>
    ELSE IF a = <<>> THEN Clean(b)
    ELSE IF b = <<>> THEN Clean(a)
    ELSE Clean(a \o <<"/">> \o b)

RECURSIVE LastSep(_, _)
\* The index of the last "/" of s at or before i, 0 when there is none.
LastSep(s, i) == IF i = 0 THEN 0 ELSE IF s[i] = "/" THEN i ELSE LastSep(s, i - 1)

\* filepath.Dir
Dir(path) == Clean(SubSeq(path, 1, LastSep(path, Len(path))))

RECURSIVE StripTrailingSeps(_)
StripTrailingSeps(s) ==
    IF s # <<>> /\ s[Len(s)] = "/" THEN StripTrailingSeps(SubSeq(s, 1, Len(s) - 1)) ELSE s

\* filepath.Base
Base(path) ==
    IF path = <<>> THEN <<".">>
    ELSE LET s == StripTrailingSeps(path) IN
         IF s = <<>> THEN <<"/">>
         ELSE SubSeq(s, LastSep(s, Len(s)) + 1, Len(s))

\* strings.HasPrefix
HasPrefix(s, prefix) == Len(prefix) <= Len(s) /\ SubSeq(s, 1, Len(prefix)) = prefix

\* strings.TrimPrefix
TrimPrefix(s, prefix) ==
    IF HasPrefix(s, prefix) THEN SubSeq(s, Len(prefix) + 1, Len(s)) ELSE s

\* RemoveProjectSlugFromPath(path, projectSlug)
RemoveProjectSlugFromPath(path, projectSlug) ==
    LET cleanedPath == Clean(path)
        sluggedNamePath == Join(<<"/">>, projectSlug)
        trimmed == IF HasPrefix(cleanedPath, sluggedNamePath)
                       THEN TrimPrefix(cleanedPath, sluggedNamePath)
                       ELSE cleanedPath
    IN IF trimmed = <<>> THEN <<"/">> ELSE trimmed

\* GetProjectSlugFromPath indexes parts[1] of strings.Split(path, "/") without a
\* length check: a path with no "/" makes it panic (index out of range).
SlugPanics(path) == Len(Split(path)) < 2

\* GetProjectSlugFromPath(path), where it does not panic (Go's parts[1]).
GetProjectSlugFromPath(path) == Split(path)[2]

\* getPathFromRequest(r) of the SFTP handler
getPathFromRequest(filepath) ==
    RemoveProjectSlugFromPath(filepath, GetProjectSlugFromPath(filepath))

----------------------------------------------------------------------------
(* The world around one session: the Project store, the Repository's rows  *)
(* and the physical files under the storage root.                          *)

\* The slugs the Project store may hold a project for.
Slugs == {<<"p">>, <<"q">>}

ProjectID(slug) == IF slug = <<"p">> THEN 1 ELSE IF slug = <<"q">> THEN 2 ELSE 0

\* A *mcmodel.Project as the handlers use it: ID and Slug. ID 0 stands for nil.
Project(slug) == [ID |-> ProjectID(slug), Slug |-> slug]
NilProject == [ID |-> 0, Slug |-> <<>>]

\* An error value: the text (a format string) and its argument. "" is nil.
Err(msg, arg) == [msg |-> msg, arg |-> arg]
Nil == Err("", <<>>)
ErrNotExist == Err("file does not exist", <<>>)
ErrInvalid == Err("invalid argument", <<>>)
\* What the store's GetProjectBySlug returns for a slug it has no project for.
ErrStoreNoProject == Err("store: no project for slug", <<>>)
\* An error of the store's file operations.
ErrStore == Err("store: operation failed", <<>>)
\* An error of the operating system's filesystem.
ErrOS == Err("os: operation failed", <<>>)

\* The storage root the handlers are constructed with, and the zero value of a
\* string field that was never assigned.
McfsRoot == "mcfsRoot"
NoRoot == ""

\* The worker goroutines of the SFTP request server that share one handler.
Workers == {"w1", "w2"}

Bytes == {0, 1}

VARIABLES
    storeProjects,          \* slugs the Project store has a project for
    storeAccess,            \* slugs of the projects the session's user can access
    storeChanges,           \* how often the store's answers have changed
    projects,               \* mcfsHandler.projects: slug -> project
    projectsWithoutAccess,  \* mcfsHandler.projectsWithoutAccess: set of slugs
    workers,                \* per worker: the callback it runs and where it is
    lookups,                \* history: GetProjectBySlug calls per slug in this session
    returned,               \* history: slugs for which a getProject call has returned
    denyReason,             \* history: why a slug was put into projectsWithoutAccess
    dirs,                   \* logical directories: <<project id, path>>
    rows,                   \* logical file rows, in creation order (id = index)
    disk,                   \* physical files: <<root, uuid>> -> bytes
    handles,                \* open-file objects (mcfile / the file of one SCP Write)
    scp,                    \* the SCP handler's fields: user, project, fatal flag
    codec,                  \* a call of the path helpers: its arguments and results
    lister,                 \* a listerat and the ListAt calls of its reader
    loaders                 \* per connection: where its loadProjectAndUserIntoHandler is

storeVars == <<storeProjects, storeAccess, storeChanges>>
cacheVars == <<projects, projectsWithoutAccess>>
histVars == <<lookups, returned, denyReason>>
repoVars == <<dirs, rows, disk, handles>>
vars == <<storeProjects, storeAccess, storeChanges, projects, projectsWithoutAccess,
          workers, lookups, returned, denyReason, dirs, rows, disk, handles, scp,
          codec, lister, loaders>>

----------------------------------------------------------------------------
(* The checksum: crypto/md5 over the bytes fed to the hasher, printed with *)
(* fmt.Sprintf("%x").  MD5 is modelled by an injective fold of the bytes,  *)
(* so two digests are equal exactly when the byte sequences are equal.     *)

RECURSIVE Md5Sum(_)
Md5Sum(bs) == IF bs = <<>> THEN 1 ELSE 3 * Md5Sum(SubSeq(bs, 1, Len(bs) - 1)) + bs[Len(bs)] + 1

HexDigit(n) == <<"0", "1", "2", "3", "4", "5", "6", "7", "8", "9", "a", "b", "c", "d", "e", "f">>[n + 1]

RECURSIVE HexString(_)
\* fmt.Sprintf("%x", n)
HexString(n) == IF n < 16 THEN <<HexDigit(n)>> ELSE HexString(n \div 16) \o <<HexDigit(n % 16)>>

Checksum(hasher) == HexString(Md5Sum(hasher))

----------------------------------------------------------------------------
(* The Store facade (github.com/materials-commons/gomcdb/store), as the    *)
(* handlers call it.  The Repository is outside this program.              *)

\* ProjectStore.GetProjectBySlug(slug): the project, or an error.
GetProjectBySlug(slug) ==
    IF slug \in storeProjects THEN [project |-> Project(slug), err |-> Nil]
    ELSE [project |-> NilProject, err |-> ErrStoreNoProject]

\* ProjectStore.UserCanAccessProject(userID, projectID) for the session's user.
UserCanAccessProject(project) == project.Slug \in storeAccess

\* The authenticated users: the user of the session, whose access storeAccess
\* holds, and another user, who can access no project.
SessionUser == "u1"
OtherUser == "u2"

\* ProjectStore.UserCanAccessProject(userID, projectID) for any user.
UserCanAccessProjectAs(uid, project) == uid = SessionUser /\ UserCanAccessProject(project)

\* ProjectStore.GetProjectsForUser(userID)
GetProjectsForUser == {Project(s) : s \in storeProjects \cap storeAccess}

\* FileStore.GetDirByPath(projectID, path) finds a directory.
GetDirByPath(pid, path) == <<pid, path>> \in dirs

RECURSIVE DirPathClosure(_)
\* A directory path and every directory above it.
DirPathClosure(path) ==
    IF Dir(path) = path THEN {path} ELSE {path} \cup DirPathClosure(Dir(path))

\* FileStore.GetOrCreateDirPath(projectID, userID, path): the directories after it.
GetOrCreateDirPath(pid, path) == dirs \cup {<<pid, d>> : d \in DirPathClosure(path)}

\* The current logical files at a path of a project (ids of rows), among rs.
CurrentFilesAt(rs, pid, path) ==
    {i \in 1..Len(rs) : /\ rs[i].project = pid
                        /\ rs[i].dir = Dir(path)
                        /\ rs[i].name = Base(path)
                        /\ rs[i].current}

Max(S) == CHOOSE x \in S : \A y \in S : y <= x

\* FileStore.GetFileByPath(projectID, path): the current file row (0: a directory
\* row), or not found.
FileByPathIn(rs, pid, path) ==
    IF CurrentFilesAt(rs, pid, path) # {}
        THEN [found |-> TRUE, id |-> Max(CurrentFilesAt(rs, pid, path))]
    ELSE [found |-> <<pid, path>> \in dirs, id |-> 0]

GetFileByPath(pid, path) == FileByPathIn(rows, pid, path)

\* FileStore.ListDirectoryByPath(projectID, path): the names of the direct children.
ListDirectoryByPath(pid, path) ==
    {Base(d[2]) : d \in {e \in dirs : e[1] = pid /\ e[2] # path /\ Dir(e[2]) = path}}
    \cup {rows[i].name : i \in {j \in 1..Len(rows) :
              rows[j].project = pid /\ rows[j].dir = path /\ rows[j].current}}

\* Two file rows are versions of one logical path.
SamePath(a, b) == a.project = b.project /\ a.dir = b.dir /\ a.name = b.name

\* The version of row i among rs: the rows of its path are numbered in the order
\* in which CreateFile made them.
Version(rs, i) == Cardinality({j \in 1..i : SamePath(rs[j], rs[i])})

\* FileStore.CreateFile(name, projectID, dirID, userID, mime): always a new row
\* that is not current; its physical file is named by its own uuid.
CreateFile(name, pid, dirPath) ==
    [project |-> pid, dir |-> dirPath, name |-> name, current |-> FALSE,
     size |-> 0, checksum |-> <<>>, uuid |-> Len(rows) + 1, usesUuid |-> 0,
     id |-> Len(rows) + 1]

\* The file the Repository holds before the sessions: /f of project p, one byte.
OldFile ==
    [project |-> 1, dir |-> <<"/">>, name |-> <<"f">>, current |-> TRUE, size |-> 1,
     checksum |-> Checksum(<<1>>), uuid |-> 1, usesUuid |-> 0, id |-> 1]

OldRows == <<OldFile>>

\* The committed rows that own a physical file with the given checksum, other
\* than row id.
Matches(rs, id, checksum) ==
    {j \in 1..Len(rs) : /\ j # id
                        /\ rs[j].current
                        /\ rs[j].usesUuid = 0
                        /\ rs[j].checksum = checksum}

\* FileStore.DoneWritingToFile(file, checksum, size, conversionStore) when it
\* succeeds: the row gets size and checksum and becomes the current one of its
\* path; if a committed file with the same checksum exists, the row is pointed
\* at that file's physical file and duplicate is reported.
DoneWritingToFile(rs, id, checksum, size) ==
    LET dup == Matches(rs, id, checksum) # {}
        uses == IF dup THEN rs[Max(Matches(rs, id, checksum))].uuid ELSE 0
    IN [duplicate |-> dup,
        rows |-> [j \in 1..Len(rs) |->
                    IF j = id
                        THEN [rs[j] EXCEPT !.current = TRUE, !.size = size,
                                           !.checksum = checksum, !.usesUuid = uses]
                    ELSE IF /\ rs[j].project = rs[id].project
                            /\ rs[j].dir = rs[id].dir
                            /\ rs[j].name = rs[id].name
                        THEN [rs[j] EXCEPT !.current = FALSE]
                    ELSE rs[j]]]

----------------------------------------------------------------------------
(* pkg/mcsftp/handler.go: the SFTP handler.  The request server runs its   *)
(* callbacks on worker goroutines that share one mcfsHandler; a callback   *)
(* is a sequence of steps, one per access to the shared caches or call of  *)
(* the Project store, and other workers may run between two steps.         *)

\* The slugs a request path can name: the store's, and "" (the path "/").
AllSlugs == Slugs \cup {<<>>}

\* A worker that runs no callback.
IdleWorker ==
    [pc |-> "idle", cb |-> "", path |-> <<>>, method |-> "", flag |-> FALSE,
     project |-> NilProject, err |-> Nil, list |-> {}, handle |-> 0,
     calls |-> 0, sawResolved |-> FALSE, sawDenied |-> FALSE, sawReturned |-> FALSE,
     why |-> ""]

\* The slug of the request a worker serves: projectSlug of getProject.
SlugOf(w) == GetProjectSlugFromPath(w.path)

\* A callback starts: the request, and what the session knew of its slug then.
Begin(cb, path, method, flag) ==
    [IdleWorker EXCEPT !.pc = "loadProjects", !.cb = cb, !.path = path,
                       !.method = method, !.flag = flag,
                       !.sawResolved = GetProjectSlugFromPath(path) \in DOMAIN projects,
                       !.sawDenied = GetProjectSlugFromPath(path) \in projectsWithoutAccess,
                       !.sawReturned = GetProjectSlugFromPath(path) \in returned]

\* A callback returns to the request server.
Return(w, err) == [w EXCEPT !.pc = "done", !.err = err]

CanStart(t) == workers[t].pc \in {"idle", "done"}

\* Open-for-write callbacks in flight, each of which may still create a row.
WritesInFlight == Cardinality({t \in Workers : workers[t].cb = "Filewrite" /\ workers[t].pc # "done"})
OpensInFlight ==
    Cardinality({t \in Workers : workers[t].cb \in {"Fileread", "Filewrite"} /\ workers[t].pc # "done"})

\* A handler that opens a file whatever the flags of the request.
NeverRejected(flag) == FALSE

\* Fileread, lines 72-76, and Filewrite, lines 100-105: the request lacks the
\* flag of the direction it asks for.
Rejected(flag) == ~flag

\* Fileread, lines 71-76: the flag check, before anything else.
Fileread(t, path, readFlag) ==
    /\ CanStart(t)
    /\ Len(handles) + OpensInFlight < MaxFiles
    /\ workers' = [workers EXCEPT ![t] =
          IF Rejected(readFlag) THEN Return(Begin("Fileread", path, "Get", readFlag), ErrInvalid)
          ELSE Begin("Fileread", path, "Get", readFlag)]
    /\ UNCHANGED <<codec, lister, loaders, storeVars, cacheVars, histVars, repoVars, scp>>

\* Filewrite, lines 99-105.
Filewrite(t, path, writeFlag) ==
    /\ CanStart(t)
    /\ Len(rows) - Len(OldRows) + WritesInFlight < MaxFiles
    /\ Len(handles) + OpensInFlight < MaxFiles
    /\ workers' = [workers EXCEPT ![t] =
          IF Rejected(writeFlag) THEN Return(Begin("Filewrite", path, "Put", writeFlag), ErrInvalid)
          ELSE Begin("Filewrite", path, "Put", writeFlag)]
    /\ UNCHANGED <<codec, lister, loaders, storeVars, cacheVars, histVars, repoVars, scp>>

\* Filecmd, line 168: it starts with getProject.
Filecmd(t, path, method) ==
    /\ CanStart(t)
    /\ workers' = [workers EXCEPT ![t] = Begin("Filecmd", path, method, TRUE)]
    /\ UNCHANGED <<codec, lister, loaders, storeVars, cacheVars, histVars, repoVars, scp>>

\* A listing of the root that names every slug, accessible or not.
EverySlug(ps) == {[Name |-> s, IsDir |-> TRUE] : s \in Slugs}

\* Filelist, lines 213-227: one entry per project, a directory (MimeType
\* "directory") named by the project's slug.
ProjectList(ps) == {[Name |-> pr.Slug, IsDir |-> TRUE] : pr \in ps}

\* Filelist, lines 199-249: the two special cases of the root, else getProject.
Filelist(t, path, method) ==
    /\ CanStart(t)
    /\ \/ /\ path = <<"/">> /\ method = "List"
          /\ \E ok \in BOOLEAN :
               workers' = [workers EXCEPT ![t] =
                  IF ok THEN [Return(Begin("Filelist", path, method, TRUE), Nil)
                                 EXCEPT !.list = ProjectList(GetProjectsForUser)]
                  ELSE Return(Begin("Filelist", path, method, TRUE),
                              Err("unable to get list of projects: %s", <<>>))]
       \/ /\ path = <<"/">> /\ method = "Stat"
          /\ workers' = [workers EXCEPT ![t] =
                  [Return(Begin("Filelist", path, method, TRUE), Nil)
                      EXCEPT !.list = {[Name |-> <<"/">>, IsDir |-> TRUE]}]]
       \/ /\ ~(path = <<"/">> /\ method \in {"List", "Stat"})
          /\ workers' = [workers EXCEPT ![t] = Begin("Filelist", path, method, TRUE)]
    /\ UNCHANGED <<codec, lister, loaders, storeVars, cacheVars, histVars, repoVars, scp>>

\* Lstat, lines 294-296.
Lstat(t, path) ==
    /\ CanStart(t)
    /\ workers' = [workers EXCEPT ![t] = Begin("Lstat", path, "Lstat", TRUE)]
    /\ UNCHANGED <<codec, lister, loaders, storeVars, cacheVars, histVars, repoVars, scp>>

\* What a callback returns when getProject returned err: Filecmd passes the error
\* on (line 170), the others return os.ErrNotExist (lines 147, 248, 298).
ResolveFailure(cb, err) == IF cb = "Filecmd" THEN err ELSE ErrNotExist

\* A lookup in a cache that finds nothing.
LoadMisses(slug) == FALSE

\* getProject, line 321: h.projects.Load(projectSlug)
ProjectsHit(slug) == slug \in DOMAIN projects

\* getProject, line 340: h.projectsWithoutAccess.Load(projectSlug)
DeniedHit(slug) == slug \in projectsWithoutAccess

\* getProject, lines 321-337: a slug found in h.projects returns the cached project.
LoadProjects(t) ==
    /\ workers[t].pc = "loadProjects"
    /\ LET w == workers[t] IN
         IF ProjectsHit(SlugOf(w))
             THEN /\ workers' = [workers EXCEPT ![t] =
                        [w EXCEPT !.pc = "body", !.project = projects[SlugOf(w)], !.why = "cached"]]
                  /\ returned' = returned \cup {SlugOf(w)}
             ELSE /\ workers' = [workers EXCEPT ![t].pc = "loadDenied"]
                  /\ UNCHANGED returned
    /\ UNCHANGED <<codec, lister, loaders, storeVars, cacheVars, lookups, denyReason, repoVars, scp>>

\* getProject, lines 340-342: a slug found in h.projectsWithoutAccess fails.
LoadDenied(t) ==
    /\ workers[t].pc = "loadDenied"
    /\ LET w == workers[t] IN
         IF DeniedHit(SlugOf(w))
             THEN /\ workers' = [workers EXCEPT ![t] =
                        [Return(w, ResolveFailure(w.cb, Err("no such project: %s", SlugOf(w))))
                            EXCEPT !.why = "denied"]]
                  /\ returned' = returned \cup {SlugOf(w)}
             ELSE /\ workers' = [workers EXCEPT ![t].pc = "getProjectBySlug"]
                  /\ UNCHANGED returned
    /\ UNCHANGED <<codec, lister, loaders, storeVars, cacheVars, lookups, denyReason, repoVars, scp>>

\* GetAndValidateProjectFromPath, lines 71-75 of util.go: the lookup by slug.
LookupProject(t) ==
    /\ workers[t].pc = "getProjectBySlug"
    /\ LET w == workers[t]
           r == GetProjectBySlug(SlugOf(w))
       IN /\ workers' = [workers EXCEPT ![t] =
                IF r.err # Nil
                    THEN [w EXCEPT !.pc = "storeDenied", !.err = r.err,
                                   !.calls = w.calls + 1, !.why = "missing"]
                    ELSE [w EXCEPT !.pc = "userCanAccess", !.project = r.project,
                                   !.calls = w.calls + 1]]
          /\ lookups' = [lookups EXCEPT ![SlugOf(w)] = @ + 1]
    /\ UNCHANGED <<codec, lister, loaders, storeVars, cacheVars, returned, denyReason, repoVars, scp>>

\* An access check whose answer is not looked at.
GrantAccess(t) ==
    /\ workers[t].pc = "userCanAccess"
    /\ workers' = [workers EXCEPT ![t].pc = "storeProject", ![t].calls = @ + 1]
    /\ UNCHANGED <<codec, lister, loaders, storeVars, cacheVars, histVars, repoVars, scp>>

\* GetAndValidateProjectFromPath, lines 78-83 of util.go: the access check.
CheckAccess(t) ==
    /\ workers[t].pc = "userCanAccess"
    /\ LET w == workers[t] IN
         workers' = [workers EXCEPT ![t] =
            IF UserCanAccessProject(w.project)
                THEN [w EXCEPT !.pc = "storeProject", !.calls = w.calls + 1]
                ELSE [w EXCEPT !.pc = "storeDenied", !.project = NilProject,
                               !.err = Err("no such project %s", SlugOf(w)),
                               !.calls = w.calls + 1, !.why = "forbidden"]]
    /\ UNCHANGED <<codec, lister, loaders, storeVars, cacheVars, histVars, repoVars, scp>>

\* getProject, lines 351-355: the slug is marked as failed and the error returned.
StoreDenied(t) ==
    /\ workers[t].pc = "storeDenied"
    /\ LET w == workers[t] IN
         /\ projectsWithoutAccess' = projectsWithoutAccess \cup {SlugOf(w)}
         /\ workers' = [workers EXCEPT ![t] = Return(w, ResolveFailure(w.cb, w.err))]
         /\ returned' = returned \cup {SlugOf(w)}
         /\ denyReason' = [denyReason EXCEPT ![SlugOf(w)] = w.why]
    /\ UNCHANGED <<codec, lister, loaders, storeVars, projects, lookups, repoVars, scp>>

\* getProject, lines 357-360: the project is put into the cache and returned.
StoreProject(t) ==
    /\ workers[t].pc = "storeProject"
    /\ LET w == workers[t] IN
         /\ projects' = [s \in DOMAIN projects \cup {SlugOf(w)} |->
                            IF s = SlugOf(w) THEN w.project ELSE projects[s]]
         /\ workers' = [workers EXCEPT ![t] = [w EXCEPT !.pc = "body", !.why = "looked up"]]
         /\ returned' = returned \cup {SlugOf(w)}
    /\ UNCHANGED <<codec, lister, loaders, storeVars, projectsWithoutAccess, lookups, denyReason, repoVars, scp>>

----------------------------------------------------------------------------
(* The callbacks after getProject returned a project.  What follows is the *)
(* callback's own work on the Repository and the filesystem, one step.     *)

\* An mcfile as createMCFileFromRequest builds it (lines 158-162: project, dir and
\* stores are set, mcfsRoot is not), with what Fileread and Filewrite add.  The
\* rest is history: sent, the bytes the client asked to write; failed, whether a
\* write failed; inOrder, whether every write was at the end of the file; the
\* results of the calls close made; after, what GetFileByPath gave for the file's
\* path when close returned; closes, the calls of Close; doneCalls, the calls of
\* DoneWritingToFile they made; ret, what the last Close returned; arrived, the
\* buffers of the WriteAt calls that wrote to the file, in the order the calls
\* came; calls, the WriteAt calls so far; doneWith, the checksum and size SCP
\* Write called DoneWritingToFile with.  pending holds the WriteAt calls that
\* have written to the file and have not fed the hasher yet.
NewHandle(file, write, via, root) ==
    [file |-> file, openForWrite |-> write, hasher |-> <<>>, mcfsRoot |-> root,
     isOpen |-> TRUE, via |-> via,
     sent |-> <<>>, failed |-> FALSE, inOrder |-> TRUE,
     statOk |-> TRUE, doneOk |-> TRUE, duplicate |-> FALSE, removeOk |-> TRUE,
     closeOk |-> TRUE, closes |-> 0, doneCalls |-> 0, ret |-> Nil,
     pending |-> {}, arrived |-> <<>>, calls |-> 0,
     doneWith |-> [checksum |-> <<>>, size |-> 0],
     after |-> [found |-> FALSE, id |-> 0]]

\* The place of the physical file a file record names: its own uuid, or the uuid
\* of the file it was pointed at.
UnderlyingFilePath(rec, root) == <<root, IF rec.usesUuid # 0 THEN rec.usesUuid ELSE rec.uuid>>

\* mcmodel.File.ToFileInfo(): what a listing tells of a file: its name, and
\* whether it is a directory (MimeType "directory").
FileInfo(name, isDir) == [Name |-> name, IsDir |-> isDir]

\* The FileInfo of what GetFileByPath found at a path: a file row, or a directory.
FileInfoAt(f, path) == FileInfo(Base(path), f.id = 0)

\* A createMCFileFromRequest that finds a directory for every path.
AnyParent(pid, path) == TRUE

\* createMCFileFromRequest, lines 150-156: the directory of the in-project path
\* is a logical directory of the project.
ParentExists(pid, path) == GetDirByPath(pid, Dir(path))

\* Fileread, lines 78-94.
FilereadBody(t) ==
    /\ workers[t].pc = "body" /\ workers[t].cb = "Fileread"
    /\ LET w == workers[t]
           pid == w.project.ID
           path == getPathFromRequest(w.path)
           f == GetFileByPath(pid, path)
       IN IF ~ParentExists(pid, path) \/ ~f.found \/ f.id = 0
              \/ UnderlyingFilePath(rows[f.id], McfsRoot) \notin DOMAIN disk
          THEN /\ workers' = [workers EXCEPT ![t] = Return(w, ErrNotExist)]
               /\ UNCHANGED handles
          ELSE \E openOk \in BOOLEAN :
                 IF openOk
                 THEN /\ handles' = Append(handles, NewHandle(rows[f.id], FALSE, "sftp", NoRoot))
                      /\ workers' = [workers EXCEPT ![t] =
                            [Return(w, Nil) EXCEPT !.handle = Len(handles) + 1]]
                 ELSE /\ workers' = [workers EXCEPT ![t] = Return(w, ErrNotExist)]
                      /\ UNCHANGED handles
    /\ UNCHANGED <<codec, lister, loaders, storeVars, cacheVars, histVars, dirs, rows, disk, scp>>

\* Filewrite, lines 107-138.
FilewriteBody(t) ==
    /\ workers[t].pc = "body" /\ workers[t].cb = "Filewrite"
    /\ LET w == workers[t]
           pid == w.project.ID
           path == getPathFromRequest(w.path)
           file == CreateFile(Base(w.path), pid, Dir(path))
       IN IF ~ParentExists(pid, path)
          THEN /\ workers' = [workers EXCEPT ![t] = Return(w, ErrNotExist)]
               /\ UNCHANGED <<rows, disk, handles>>
          ELSE \E createOk \in BOOLEAN, mkdirOk \in BOOLEAN, osCreateOk \in BOOLEAN :
                 IF ~createOk
                 THEN /\ workers' = [workers EXCEPT ![t] = Return(w, ErrNotExist)]
                      /\ UNCHANGED <<rows, disk, handles>>
                 ELSE IF ~mkdirOk
                 THEN /\ rows' = Append(rows, file)
                      /\ workers' = [workers EXCEPT ![t] = Return(w, ErrNotExist)]
                      /\ UNCHANGED <<disk, handles>>
                 ELSE IF ~osCreateOk
                 THEN /\ rows' = Append(rows, file)
                      /\ workers' = [workers EXCEPT ![t] = Return(w, ErrOS)]
                      /\ UNCHANGED <<disk, handles>>
                 ELSE /\ rows' = Append(rows, file)
                      /\ disk' = [k \in DOMAIN disk \cup {UnderlyingFilePath(file, McfsRoot)} |->
                                     IF k = UnderlyingFilePath(file, McfsRoot) THEN <<>> ELSE disk[k]]
                      /\ handles' = Append(handles, NewHandle(file, TRUE, "sftp", NoRoot))
                      /\ workers' = [workers EXCEPT ![t] =
                            [Return(w, Nil) EXCEPT !.handle = Len(handles) + 1]]
    /\ UNCHANGED <<codec, lister, loaders, storeVars, cacheVars, histVars, dirs, scp>>

\* A Filecmd that answers every method like an invalid request.
InvalidCommand(method) == ErrInvalid

\* Filecmd, lines 182-193: the cases of the switch other than Mkdir.
UnsupportedCommand(method) ==
    IF method \in {"Rename", "Rmdir", "Setstat", "Link", "Symlink"}
        THEN Err("unsupported command: '" \o method \o "'", <<>>)
        ELSE Err("unsupport command: '%s'", <<method>>)

\* Filecmd, lines 173-194.
FilecmdBody(t) ==
    /\ workers[t].pc = "body" /\ workers[t].cb = "Filecmd"
    /\ LET w == workers[t]
           path == getPathFromRequest(w.path)
       IN IF w.method = "Mkdir"
          THEN \E ok \in BOOLEAN :
                 IF ok
                 THEN /\ dirs' = GetOrCreateDirPath(w.project.ID, path)
                      /\ workers' = [workers EXCEPT ![t] = Return(w, Nil)]
                 ELSE /\ workers' = [workers EXCEPT ![t] = Return(w, ErrStore)]
                      /\ UNCHANGED dirs
          ELSE /\ workers' = [workers EXCEPT ![t] = Return(w, UnsupportedCommand(w.method))]
               /\ UNCHANGED dirs
    /\ UNCHANGED <<codec, lister, loaders, storeVars, cacheVars, histVars, rows, disk, handles, scp>>

\* Filelist, lines 251-279.
FilelistBody(t) ==
    /\ workers[t].pc = "body" /\ workers[t].cb = "Filelist"
    /\ LET w == workers[t]
           pid == w.project.ID
           path == getPathFromRequest(w.path)
       IN workers' = [workers EXCEPT ![t] =
            IF w.method = "List"
                THEN IF GetDirByPath(pid, path)
                         THEN [Return(w, Nil) EXCEPT !.list =
                                  {FileInfo(n, GetDirByPath(pid, Join(path, n))) :
                                       n \in ListDirectoryByPath(pid, path)}]
                         ELSE Return(w, ErrNotExist)
            ELSE IF w.method = "Stat"
                THEN IF GetFileByPath(pid, path).found
                         THEN [Return(w, Nil) EXCEPT !.list =
                                  {FileInfoAt(GetFileByPath(pid, path), path)}]
                         ELSE Return(w, ErrNotExist)
            ELSE IF w.method = "Readlink"
                THEN Return(w, Err("unsupported command: 'Readlink'", <<>>))
            ELSE Return(w, Err("unsupport command: '%s'", <<w.method>>))]
    /\ UNCHANGED <<codec, lister, loaders, storeVars, cacheVars, histVars, repoVars, scp>>

\* Lstat, lines 300-306.
LstatBody(t) ==
    /\ workers[t].pc = "body" /\ workers[t].cb = "Lstat"
    /\ LET w == workers[t]
           path == getPathFromRequest(w.path)
       IN workers' = [workers EXCEPT ![t] =
            IF GetFileByPath(w.project.ID, path).found
                THEN [Return(w, Nil) EXCEPT !.list =
                         {FileInfoAt(GetFileByPath(w.project.ID, path), path)}]
                ELSE Return(w, ErrNotExist)]
    /\ UNCHANGED <<codec, lister, loaders, storeVars, cacheVars, histVars, repoVars, scp>>

----------------------------------------------------------------------------
(* mcfile: the object Fileread and Filewrite hand to the request server,   *)
(* which calls its WriteAt and Close.                                      *)

\* os.Create / os.OpenFile with O_TRUNC: the file exists and is empty.
CreateOnDisk(d, key) == [k \in DOMAIN d \cup {key} |-> IF k = key THEN <<>> ELSE d[k]]

\* os.Remove(name): a name that is no file is an error, and nothing changes.
Remove(d, key, ok) ==
    IF ok /\ key \in DOMAIN d THEN [k \in DOMAIN d \ {key} |-> d[k]] ELSE d

\* os.File.WriteAt of one byte at an offset: in the file, or at its end.
FileWriteAt(content, b, offset) ==
    IF offset < Len(content) THEN [content EXCEPT ![offset + 1] = b] ELSE Append(content, b)

\* An mcfile that never commits: every handle counts as open for read.
AlwaysOpenForRead(h) == TRUE

\* mcfile.isOpenForRead
isOpenForRead(h) == h.openForWrite = FALSE

\* The path of a file record in its project.
PathOf(file) == Join(file.dir, file.name)

RECURSIVE WriteBytes(_, _, _, _)
\* os.File.WriteAt(b, offset) that writes the first n bytes of b.
WriteBytes(content, b, offset, n) ==
    IF n = 0 THEN content
    ELSE FileWriteAt(WriteBytes(content, b, offset, n - 1), b[n], offset + n - 1)

\* A WriteAt that feeds the hasher what it wrote, also when the write failed.
HashAlways(b, n, ok) == SubSeq(b, 1, n)

\* mcfile.WriteAt, lines 492-499: what it feeds to the hasher, b[:n] after a
\* write that succeeded, nothing after one that failed.
Hashed(b, n, ok) == IF ok THEN SubSeq(b, 1, n) ELSE <<>>

\* mcfile.WriteAt(b, offset), one call at a time: the write to the file, of
\* which n bytes reach it (all of b unless it fails), then the hasher.  A client
\* writes until it has sent MaxBytes bytes.
WriteAt(i, b, offset, n, ok) ==
    /\ i \in DOMAIN handles
    /\ LET h == handles[i]
           key == UnderlyingFilePath(h.file, McfsRoot)
       IN /\ h.isOpen /\ h.via = "sftp" /\ h.openForWrite
          /\ h.pending = {}
          /\ Len(h.sent) < MaxBytes
          /\ key \in DOMAIN disk
          /\ offset <= Len(disk[key])
          /\ b # <<>>
          /\ IF ok THEN n = Len(b) ELSE n < Len(b)
          /\ disk' = [disk EXCEPT ![key] = WriteBytes(@, b, offset, n)]
          /\ handles' = [handles EXCEPT ![i] =
                [h EXCEPT !.hasher = h.hasher \o Hashed(b, n, ok),
                          !.sent = h.sent \o b,
                          !.failed = h.failed \/ ~ok,
                          !.inOrder = IF ok THEN h.inOrder /\ offset = Len(disk[key])
                                            ELSE h.inOrder,
                          !.arrived = IF ok THEN Append(h.arrived, b) ELSE h.arrived,
                          !.calls = h.calls + 1]]
    /\ UNCHANGED <<codec, lister, loaders, storeVars, cacheVars, workers, histVars, dirs, rows, scp>>

\* mcfile.WriteAt on a worker of the request server, which runs the WriteAt
\* calls of one handle in parallel.  First step, lines 492-495: the call has
\* arrived and writes to the file; a call whose write failed returns, one whose
\* write succeeded goes on to the hasher.
WriteAtFile(i, b, offset, n, ok) ==
    /\ i \in DOMAIN handles
    /\ LET h == handles[i]
           key == UnderlyingFilePath(h.file, McfsRoot)
       IN /\ h.isOpen /\ h.via = "sftp" /\ h.openForWrite
          /\ h.calls < MaxCalls
          /\ key \in DOMAIN disk
          /\ offset <= Len(disk[key])
          /\ b # <<>>
          /\ IF ok THEN n = Len(b) ELSE n < Len(b)
          /\ disk' = [disk EXCEPT ![key] = WriteBytes(@, b, offset, n)]
          /\ handles' = [handles EXCEPT ![i] =
                [h EXCEPT !.sent = h.sent \o b,
                          !.failed = h.failed \/ ~ok,
                          !.inOrder = IF ok THEN h.inOrder /\ offset = Len(disk[key])
                                            ELSE h.inOrder,
                          !.arrived = IF ok THEN Append(h.arrived, b) ELSE h.arrived,
                          !.calls = h.calls + 1,
                          !.pending = IF ok THEN h.pending \cup {[seq |-> h.calls + 1, b |-> b]}
                                            ELSE h.pending]]
    /\ UNCHANGED <<codec, lister, loaders, storeVars, cacheVars, workers, histVars, dirs, rows, scp>>

\* Second step, lines 497-501: call c feeds its buffer to the hasher while no
\* other call does, and returns.  Which of the pending calls is first is up to
\* the scheduler.
WriteAtHash(i, c) ==
    /\ i \in DOMAIN handles
    /\ c \in handles[i].pending
    /\ handles' = [handles EXCEPT ![i] =
          [handles[i] EXCEPT !.hasher = handles[i].hasher \o Hashed(c.b, Len(c.b), TRUE),
                             !.pending = handles[i].pending \ {c}]]
    /\ UNCHANGED <<codec, lister, loaders, storeVars, cacheVars, workers, histVars, dirs, rows, disk, scp>>

\* What the hasher may hold after two calls wrote b1 and b2 to it at the same
\* time.  hash.Hash is not safe for concurrent use and mcfile holds no lock:
\* the writes race, and the digest may take both buffers in either order or lose
\* one of them.
RaceOutcomes(hasher, b1, b2) ==
    {hasher \o b1 \o b2, hasher \o b2 \o b1, hasher \o b1, hasher \o b2}

\* Second step of two calls at once, lines 497-501.
WriteAtHashRace(i, c1, c2) ==
    /\ i \in DOMAIN handles
    /\ c1 \in handles[i].pending /\ c2 \in handles[i].pending /\ c1.seq < c2.seq
    /\ \E out \in RaceOutcomes(handles[i].hasher, c1.b, c2.b) :
          handles' = [handles EXCEPT ![i] =
              [handles[i] EXCEPT !.hasher = out,
                                 !.pending = handles[i].pending \ {c1, c2}]]
    /\ UNCHANGED <<codec, lister, loaders, storeVars, cacheVars, workers, histVars, dirs, rows, disk, scp>>

\* An os.File whose Stat answers on a closed file as on an open one.
StatOpenOrClosed(h, statOk) == statOk

\* f.fileHandle.Stat(), line 547: it fails on a file that is closed (os: "use of
\* closed file"); on an open file it succeeds unless the OS fails it.
StatResult(h, statOk) == h.isOpen /\ statOk

\* A Close that returns the failure of Stat to its caller.
CloseReportsStat(stat) == IF stat THEN Nil ELSE ErrOS

\* What Close returns, lines 539-562: nil at each of its three returns.  stat:
\* what Stat gave.
CloseResult(stat) == Nil

\* mcfile.Close(): nothing for a file opened for read; else Stat, the checksum,
\* DoneWritingToFile, and in the deferred function the close of the os.File and
\* the removal of the file when DoneWritingToFile reported a duplicate.  The
\* request server may call it again on a handle it has closed, up to MaxCloses
\* calls.  closeOk: the OS closes an open file without an error.
Close(i, statOk, doneOk, removeOk, closeOk) ==
    /\ i \in DOMAIN handles
    /\ LET h == handles[i]
           key == UnderlyingFilePath(h.file, McfsRoot)
           stat == StatResult(h, statOk)
           size == IF key \in DOMAIN disk THEN Len(disk[key]) ELSE 0
           done == DoneWritingToFile(rows, h.file.id, Checksum(h.hasher), size)
           commit == ~isOpenForRead(h) /\ stat /\ doneOk
           called == ~isOpenForRead(h) /\ stat
           deleteFile == commit /\ done.duplicate
           rows2 == IF commit THEN done.rows ELSE rows
       IN /\ h.via = "sftp"
          /\ h.isOpen \/ h.closes < MaxCloses
          /\ h.isOpen => key \in DOMAIN disk
          /\ isOpenForRead(h) => statOk
          /\ isOpenForRead(h) \/ ~stat => doneOk
          /\ deleteFile \/ removeOk
          /\ ~h.isOpen => ~closeOk
          /\ rows' = rows2
          /\ disk' = IF deleteFile
                        THEN Remove(disk, UnderlyingFilePath(h.file, h.mcfsRoot), removeOk)
                        ELSE disk
          /\ handles' = [handles EXCEPT ![i] =
                [h EXCEPT !.isOpen = FALSE,
                          !.statOk = stat, !.doneOk = doneOk,
                          !.duplicate = deleteFile, !.removeOk = removeOk,
                          !.closeOk = closeOk,
                          !.closes = h.closes + 1,
                          !.doneCalls = h.doneCalls + (IF called THEN 1 ELSE 0),
                          !.ret = CloseResult(stat),
                          !.after = FileByPathIn(rows2, h.file.project, PathOf(h.file))]]
    /\ UNCHANGED <<codec, lister, loaders, storeVars, cacheVars, workers, histVars, dirs, scp>>

----------------------------------------------------------------------------
(* pkg/mcscp/session_context.go: the SCP handler.  Its callbacks run one   *)
(* after the other; each is one step.  The variable scp holds the fields   *)
(* of the handler (user, project, fatal) and, as history, the last         *)
(* callback: its name and path, what it returned, whether the handler had  *)
(* failed before it, and the calls of the Project store and the reads of   *)
(* the session context it made.  A callback that panics ends the session.  *)

\* A handler that never remembers a failure.
NeverFailed(h) == FALSE

\* loadProjectAndUserIntoHandler, lines 365-370: fatalErrorLoadingProjectOrUser.
AlreadyFailed(h) == h.fatal

\* What loadProjectAndUserIntoHandler gives: the handler's fields after it, the
\* error, the store calls and context reads it made, and whether it panicked.
Loaded(h, err, calls, reads) ==
    [scp |-> h, err |-> err, calls |-> calls, reads |-> reads, panic |-> FALSE]

\* loadProjectFromPathIntoHandler(path, userID), lines 440-459, with
\* GetAndValidateProjectFromPath: h is the handler with its user loaded, reads
\* the context reads made so far.
loadProjectFromPathIntoHandler(h, path, reads) ==
    IF SlugPanics(path)
        THEN [scp |-> h, err |-> Nil, calls |-> 0, reads |-> reads, panic |-> TRUE]
    ELSE IF GetProjectBySlug(GetProjectSlugFromPath(path)).err # Nil
        THEN Loaded([h EXCEPT !.fatal = TRUE, !.why = "missing"],
                    GetProjectBySlug(GetProjectSlugFromPath(path)).err, 1, reads)
    ELSE IF ~UserCanAccessProjectAs(h.uid, Project(GetProjectSlugFromPath(path)))
        THEN Loaded([h EXCEPT !.fatal = TRUE, !.why = "forbidden"],
                    Err("no such project %s", GetProjectSlugFromPath(path)), 2, reads)
    ELSE Loaded([h EXCEPT !.project = Project(GetProjectSlugFromPath(path))], Nil, 2, reads)

\* loadUserFromContextIntoHandler(s), lines 408-431, when the context of the
\* session holds the user: a user the handler has is kept, else the user of the
\* session is cached.
WithUser(h) == IF h.user THEN h ELSE [h EXCEPT !.user = TRUE, !.uid = h.conn]

\* loadProjectAndUserIntoHandler(s, path), lines 364-402, with
\* loadUserFromContextIntoHandler.  userOk: the session's context holds the user.
loadProjectAndUserIntoHandler(path, userOk) ==
    IF AlreadyFailed(scp)
        THEN Loaded(scp, Err("fatal error user or project invalid", <<>>), 0, 0)
    ELSE IF scp.user /\ scp.project # NilProject
        THEN Loaded(scp, Nil, 0, 0)
    ELSE IF ~scp.user /\ ~userOk
        THEN Loaded([scp EXCEPT !.fatal = TRUE, !.why = "user"],
                    Err("internal error user not set", <<>>), 0, 1)
    ELSE IF scp.project # NilProject
        THEN Loaded(WithUser(scp), Nil, 0, 1)
    ELSE loadProjectFromPathIntoHandler(WithUser(scp), path, IF scp.user THEN 0 ELSE 1)

\* The connections the server serves at one time, each in its own goroutine and
\* all with the handler mcsshdMain constructed (cmd/mc-sshd/cmd/root.go, lines
\* 136-145), named by their users.
Conns == {SessionUser, OtherUser}

\* A connection that is not in loadProjectAndUserIntoHandler.  pc is where the
\* call is, path and userOk its arguments (userOk: the context of its session
\* holds the user), found and err what GetAndValidateProjectFromPath gave it,
\* ret what the last call returned.
IdleLoader ==
    [pc |-> "idle", path |-> <<>>, userOk |-> FALSE, found |-> NilProject, err |-> Nil,
     ret |-> ""]

\* The call of connection c returns.
LoadReturns(c, ret) == [loaders EXCEPT ![c] = [IdleLoader EXCEPT !.ret = ret]]

\* loadProjectAndUserIntoHandler(s, path), lines 365-379, on connection c: the
\* reads of the flag, the user and the project that decide where the call goes.
LoadBegin(c, path, userOk) ==
    /\ ~scp.panicked
    /\ loaders[c].pc = "idle"
    /\ loaders' =
          IF AlreadyFailed(scp) THEN LoadReturns(c, "err")
          ELSE IF scp.user /\ scp.project # NilProject THEN LoadReturns(c, "ok")
          ELSE [loaders EXCEPT ![c] = [IdleLoader EXCEPT
                    !.pc = IF scp.user THEN "project" ELSE "user",
                    !.path = path, !.userOk = userOk]]
    /\ UNCHANGED <<codec, lister, storeVars, cacheVars, workers, histVars, repoVars, scp>>

\* Lines 381-386 with loadUserFromContextIntoHandler, lines 408-431, on
\* connection c: the user is read from the context of c's session and stored,
\* or the flag is set.
LoadUser(c) ==
    /\ loaders[c].pc = "user"
    /\ IF scp.user
          THEN /\ loaders' = [loaders EXCEPT ![c].pc = "project"]
               /\ UNCHANGED scp
       ELSE IF ~AlreadyFailed(scp) /\ loaders[c].userOk
          THEN /\ loaders' = [loaders EXCEPT ![c].pc = "project"]
               /\ scp' = [scp EXCEPT !.user = TRUE, !.uid = c]
       ELSE /\ loaders' = LoadReturns(c, "err")
            /\ scp' = [scp EXCEPT !.fatal = TRUE, !.why = "user"]
    /\ UNCHANGED <<codec, lister, storeVars, cacheVars, workers, histVars, repoVars>>

\* Lines 392-394 with loadProjectFromPathIntoHandler, lines 440-454, on
\* connection c: the project is looked up and validated for the user the handler
\* holds; the answer is in the call's local variables.
LoadProject(c) ==
    /\ loaders[c].pc = "project"
    /\ IF scp.project # NilProject
          THEN /\ loaders' = LoadReturns(c, "ok")
               /\ UNCHANGED scp
       ELSE IF AlreadyFailed(scp)
          THEN /\ loaders' = LoadReturns(c, "err")
               /\ scp' = [scp EXCEPT !.fatal = TRUE]
       ELSE LET r == loadProjectFromPathIntoHandler(scp, loaders[c].path, 0)
            IN /\ ~r.panic
               /\ loaders' = [loaders EXCEPT ![c].pc = "assign",
                                              ![c].found = r.scp.project,
                                              ![c].err = r.err]
               /\ UNCHANGED scp
    /\ UNCHANGED <<codec, lister, storeVars, cacheVars, workers, histVars, repoVars>>

\* Line 456 (h.project = project) or lines 395-399 (the flag is set) on
\* connection c, with the answer the call holds.
LoadAssign(c) ==
    /\ loaders[c].pc = "assign"
    /\ scp' = IF loaders[c].err # Nil
                 THEN [scp EXCEPT !.fatal = TRUE, !.why = "project"]
                 ELSE [scp EXCEPT !.project = loaders[c].found]
    /\ loaders' = LoadReturns(c, IF loaders[c].err # Nil THEN "err" ELSE "ok")
    /\ UNCHANGED <<codec, lister, storeVars, cacheVars, workers, histVars, repoVars>>

\* No entry: the nil *scp.DirEntry or *scp.FileEntry.
NilEntry == [nil |-> TRUE, Name |-> <<>>, Filepath |-> <<>>, IsDir |-> FALSE, Size |-> 0]

\* An scp.DirEntry or scp.FileEntry.
Entry(name, filepath, isDir, size) ==
    [nil |-> FALSE, Name |-> name, Filepath |-> filepath, IsDir |-> isDir, Size |-> size]

\* What a callback of the SCP handler returned, r being what
\* loadProjectAndUserIntoHandler gave it.
ScpReturn(r, cb, path, written, err, entry, walked) ==
    [r.scp EXCEPT !.cb = cb, !.path = path, !.sawFatal = scp.fatal, !.by = scp.conn,
                  !.calls = r.calls, !.reads = r.reads,
                  !.written = written, !.err = err, !.entry = entry, !.walked = walked,
                  !.visits = <<>>, !.listed = {}]

\* A callback panicked in loadProjectAndUserIntoHandler.
ScpPanic(r, cb, path) ==
    [r.scp EXCEPT !.cb = cb, !.path = path, !.sawFatal = scp.fatal, !.by = scp.conn,
                  !.calls = r.calls, !.reads = r.reads,
                  !.written = 0, !.err = Nil, !.entry = NilEntry, !.walked = {},
                  !.visits = <<>>, !.listed = {},
                  !.panicked = TRUE]

\* A callback may start: the session is alive, and the context is looked at
\* only by a call that reads it.
ScpCanStart(userOk) == ~scp.panicked /\ (~userOk => ~scp.fatal /\ ~scp.user)

\* Glob(s, pattern), lines 120-125: the pattern itself, without a look at the
\* handler.
Glob(pattern) ==
    /\ ~scp.panicked
    /\ scp' = [scp EXCEPT !.cb = "Glob", !.path = pattern, !.sawFatal = scp.fatal,
                          !.by = scp.conn,
                          !.calls = 0, !.reads = 0, !.written = 0, !.err = Nil,
                          !.entry = NilEntry, !.walked = {pattern}, !.visits = <<>>,
                          !.listed = {}]
    /\ UNCHANGED <<codec, lister, loaders, storeVars, cacheVars, workers, histVars, repoVars>>

\* A connection of user u reaches the server: scp.Middleware hands its session to
\* the handler mcsshdMain constructed (cmd/mc-sshd/cmd/root.go, lines 136-145),
\* the same for every connection.
Connect(u) ==
    /\ ~scp.panicked
    /\ scp.conn # u
    /\ scp' = [scp EXCEPT !.conn = u]
    /\ UNCHANGED <<codec, lister, loaders, storeVars, cacheVars, workers, histVars, repoVars>>

\* What an fs.WalkDirFunc returns: nil, filepath.SkipDir, or another error.
Verdicts == {"nil", "skip", "err"}

\* The error an fs.WalkDirFunc returns that is not filepath.SkipDir.
ErrFn == Err("fn: error", <<>>)

\* An fs.WalkDirFunc and the store under one walk: fn returns ret for the path
\* at and nil for every other path when it is called with a nil error, onErr
\* when it is called with an error; ListDirectoryByPath fails for failAt.
Visitor(at, ret, onErr, failAt) == [at |-> at, ret |-> ret, onErr |-> onErr, failAt |-> failAt]

\* The fn that returns nil whenever it is called, over a store that answers.
VisitAll == Visitor(<<>>, "nil", "nil", <<>>)

\* The fn that returns an error whenever it is called.
VisitNone(path) == Visitor(path, "err", "err", <<>>)

\* One call of fn: its path, whether its entry is nil, whether its error is not
\* nil, and what it returned.
Visit(path, nilEntry, withErr, ret) ==
    [path |-> path, nilEntry |-> nilEntry, withErr |-> withErr, ret |-> ret]

RECURSIVE InOrder(_)
\* The rows ListDirectoryByPath returns, in the order of the result set.
InOrder(names) ==
    IF names = {} THEN <<>>
    ELSE LET n == CHOOSE x \in names : TRUE IN <<n>> \o InOrder(names \ {n})

RECURSIVE walkDir(_, _, _, _)
RECURSIVE walkDirLoop(_, _, _, _, _, _)

\* The loop of walkDir over the rows of a directory, lines 177-186, from row i
\* on: filepath.SkipDir from a row ends the loop, another error is returned.
walkDirLoop(pid, path, names, i, v, w) ==
    IF i > Len(names) THEN w
    ELSE LET p == Join(path, names[i])
             r == walkDir(pid, p, GetDirByPath(pid, p), v)
             both == [visits |-> w.visits \o r.visits, ret |-> "nil",
                      listed |-> w.listed \cup r.listed]
         IN IF r.ret = "skip" THEN both
            ELSE IF r.ret # "nil" THEN [both EXCEPT !.ret = r.ret]
            ELSE walkDirLoop(pid, path, names, i + 1, v, both)

\* walkDir(path, d, fn), lines 155-189: the calls of fn, what walkDir returns,
\* and the directories it asked the store to list.
walkDir(pid, path, isDir, v) ==
    LET first == IF path = v.at THEN v.ret ELSE "nil"
        called == <<Visit(path, FALSE, FALSE, first)>>
        failed == path = v.failAt
        again == <<Visit(path, FALSE, TRUE, v.onErr)>>
    IN IF first # "nil" \/ ~isDir
           THEN [visits |-> called, ret |-> IF first = "skip" /\ isDir THEN "nil" ELSE first,
                 listed |-> {}]
       ELSE IF failed
           THEN [visits |-> called \o again, ret |-> v.onErr, listed |-> {path}]
       ELSE walkDirLoop(pid, path, InOrder(ListDirectoryByPath(pid, path)), 1, v,
                        [visits |-> called, ret |-> "nil", listed |-> {path}])

\* The paths fn is called with in a walk that fn lets go on everywhere.
Walked(pid, path) ==
    LET r == walkDir(pid, path, TRUE, VisitAll)
    IN {r.visits[i].path : i \in 1..Len(r.visits)}

\* A WalkDir that walks from its path whether or not the store has it.
walkAnyway(pid, cleanedPath, v) == walkDir(pid, cleanedPath, TRUE, v)

\* WalkDir, lines 136-145: the walk from the directory GetDirByPath found, or
\* the one call fn(cleanedPath, nil, err) with the error of GetDirByPath.
walkFrom(pid, cleanedPath, v) ==
    IF GetDirByPath(pid, cleanedPath) THEN walkDir(pid, cleanedPath, TRUE, v)
    ELSE [visits |-> <<Visit(cleanedPath, TRUE, TRUE, v.onErr)>>, ret |-> v.onErr,
          listed |-> {}]

\* WalkDir(s, path, fn), lines 129-152, fn and the store's listing being v.
WalkDirWith(path, userOk, v) ==
    /\ ScpCanStart(userOk)
    /\ LET r == loadProjectAndUserIntoHandler(path, userOk)
           cleanedPath == RemoveProjectSlugFromPath(path, r.scp.project.Slug)
           w == walkFrom(r.scp.project.ID, cleanedPath, v)
       IN scp' =
            IF r.panic THEN ScpPanic(r, "WalkDir", path)
            ELSE IF r.err # Nil THEN ScpReturn(r, "WalkDir", path, 0, r.err, NilEntry, {})
            ELSE [ScpReturn(r, "WalkDir", path, 0, IF w.ret = "err" THEN ErrFn ELSE Nil,
                            NilEntry, {w.visits[i].path : i \in 1..Len(w.visits)})
                     EXCEPT !.visits = w.visits, !.listed = w.listed]
    /\ UNCHANGED <<codec, lister, loaders, storeVars, cacheVars, workers, histVars, repoVars>>

\* WalkDir(s, path, fn), lines 129-152.  fnOk: fn returns nil whenever it is
\* called; else it returns an error at its first call.
WalkDir(path, userOk, fnOk) ==
    LET r == loadProjectAndUserIntoHandler(path, userOk)
    IN WalkDirWith(path, userOk,
                   IF fnOk \/ r.panic \/ r.err # Nil THEN VisitAll
                   ELSE VisitNone(RemoveProjectSlugFromPath(path, r.scp.project.Slug)))

\* NewDirEntry(s, name), lines 194-213.
NewDirEntry(name, userOk) ==
    /\ ScpCanStart(userOk)
    /\ LET r == loadProjectAndUserIntoHandler(name, userOk)
           path == RemoveProjectSlugFromPath(name, r.scp.project.Slug)
       IN scp' =
            IF r.panic THEN ScpPanic(r, "NewDirEntry", name)
            ELSE IF r.err # Nil THEN ScpReturn(r, "NewDirEntry", name, 0, r.err, NilEntry, {})
            ELSE IF ~GetDirByPath(r.scp.project.ID, path)
                THEN ScpReturn(r, "NewDirEntry", name, 0,
                               Err("failed to open dir '%s' for project %d: %s", <<>>), NilEntry, {})
            ELSE ScpReturn(r, "NewDirEntry", name, 0, Nil, Entry(Base(path), path, TRUE, 0), {})
    /\ UNCHANGED <<codec, lister, loaders, storeVars, cacheVars, workers, histVars, repoVars>>

\* NewFileEntry(s, name), lines 219-246.  openOk: os.Open of an existing file
\* succeeds.
NewFileEntry(name, userOk, openOk) ==
    /\ ScpCanStart(userOk)
    /\ LET r == loadProjectAndUserIntoHandler(name, userOk)
           path == RemoveProjectSlugFromPath(name, r.scp.project.Slug)
           f == GetFileByPath(r.scp.project.ID, path)
       IN scp' =
            IF r.panic THEN ScpPanic(r, "NewFileEntry", name)
            ELSE IF r.err # Nil THEN ScpReturn(r, "NewFileEntry", name, 0, r.err, NilEntry, {})
            ELSE IF ~f.found
                THEN ScpReturn(r, "NewFileEntry", name, 0,
                               Err("unable to find file '%s' in project %d: %s", <<>>), NilEntry, {})
            ELSE IF f.id = 0 \/ ~openOk \/ UnderlyingFilePath(rows[f.id], McfsRoot) \notin DOMAIN disk
                THEN ScpReturn(r, "NewFileEntry", name, 0,
                               Err("failed to open %q: %w", <<>>), NilEntry, {})
            ELSE ScpReturn(r, "NewFileEntry", name, 0, Nil,
                           Entry(rows[f.id].name, path, FALSE, rows[f.id].size), {})
    /\ UNCHANGED <<codec, lister, loaders, storeVars, cacheVars, workers, histVars, repoVars>>

\* Mkdir(s, entry), lines 254-266: entry.Filepath is path.
Mkdir(path, userOk, storeOk) ==
    /\ ScpCanStart(userOk)
    /\ LET r == loadProjectAndUserIntoHandler(path, userOk)
           inProject == RemoveProjectSlugFromPath(path, r.scp.project.Slug)
       IN IF r.panic
          THEN /\ scp' = ScpPanic(r, "Mkdir", path)
               /\ UNCHANGED dirs
          ELSE IF r.err # Nil
          THEN /\ scp' = ScpReturn(r, "Mkdir", path, 0, r.err, NilEntry, {})
               /\ UNCHANGED dirs
          ELSE IF storeOk
          THEN /\ dirs' = GetOrCreateDirPath(r.scp.project.ID, inProject)
               /\ scp' = ScpReturn(r, "Mkdir", path, 0, Nil, NilEntry, {})
          ELSE /\ scp' = ScpReturn(r, "Mkdir", path, 0,
                            Err("unable to find dir '%s' for project %d: %s", <<>>), NilEntry, {})
               /\ UNCHANGED dirs
    /\ UNCHANGED <<codec, lister, loaders, storeVars, cacheVars, workers, histVars, rows, disk, handles>>

\* A Write that removes the physical file the committed row names.
RemovedOfCommitted(file, committed, root) == UnderlyingFilePath(committed, root)

\* Write, lines 325-329: the physical file the deferred os.Remove names, file
\* being the record CreateFile returned and committed the row of the file after
\* DoneWritingToFile.
RemovedFile(file, committed, root) == UnderlyingFilePath(file, root)

\* A Write that reports the whole stream whatever io.Copy moved.
WholeStream(data, copied, hashed) ==
    [checksum |-> Checksum(data), size |-> Len(data), written |-> Len(data)]

\* Write, lines 338-351, after an io.Copy that moved `copied` bytes of data into
\* the file, the tee having fed `hashed` bytes to the hasher: the checksum and
\* size it calls DoneWritingToFile with, and the count it returns.
AfterCopy(data, copied, hashed) ==
    [checksum |-> Checksum(SubSeq(data, 1, hashed)), size |-> copied, written |-> copied]

\* Write(s, entry), lines 274-352: entry.Filepath is path, entry.Reader yields
\* data.  io.Copy moves `copied` bytes into the file (fewer than Len(data): it
\* failed), the tee having fed `hashed` bytes to the hasher.  flags: what
\* DoneWritingToFile may return as its boolean when it returns an error.
WriteWith(path, data, userOk, flags) ==
    /\ ScpCanStart(userOk)
    /\ Len(rows) - Len(OldRows) < MaxFiles /\ Len(handles) < MaxFiles
    /\ LET r == loadProjectAndUserIntoHandler(path, userOk)
           pid == r.scp.project.ID
           inProject == RemoveProjectSlugFromPath(path, r.scp.project.Slug)
           file == CreateFile(Base(path), pid, Dir(inProject))
           key == UnderlyingFilePath(file, McfsRoot)
           rows1 == Append(rows, file)
       IN IF r.panic
          THEN /\ scp' = ScpPanic(r, "Write", path)
               /\ UNCHANGED <<dirs, rows, disk, handles>>
          ELSE IF r.err # Nil
          THEN /\ scp' = ScpReturn(r, "Write", path, 0, r.err, NilEntry, {})
               /\ UNCHANGED <<dirs, rows, disk, handles>>
          ELSE \/ /\ scp' = ScpReturn(r, "Write", path, 0,
                               Err("unable to find dir '%s' for project %d: %s", <<>>), NilEntry, {})
                  /\ UNCHANGED <<dirs, rows, disk, handles>>
               \/ /\ dirs' = GetOrCreateDirPath(pid, Dir(inProject))
                  /\ scp' = ScpReturn(r, "Write", path, 0,
                               Err("unable to create file '%s' in dir %d for project %d: %s", <<>>),
                               NilEntry, {})
                  /\ UNCHANGED <<rows, disk, handles>>
               \/ /\ dirs' = GetOrCreateDirPath(pid, Dir(inProject))
                  /\ rows' = rows1
                  /\ \E e \in {ErrOS, Err("failed to open file %d path '%s': %s", <<>>)} :
                        scp' = ScpReturn(r, "Write", path, 0, e, NilEntry, {})
                  /\ UNCHANGED <<disk, handles>>
               \/ \E copied \in 0..Len(data), doneOk \in BOOLEAN, removeOk \in BOOLEAN :
                  \E hashed \in {copied, Len(data)}, flag \in flags :
                    LET c == AfterCopy(data, copied, hashed)
                        done == DoneWritingToFile(rows1, file.id, c.checksum, c.size)
                        deleteFile == IF doneOk THEN done.duplicate ELSE flag
                        rows2 == IF doneOk THEN done.rows ELSE rows1
                        disk1 == [CreateOnDisk(disk, key) EXCEPT ![key] = SubSeq(data, 1, copied)]
                    IN /\ copied = Len(data) => hashed = Len(data)
                       /\ doneOk => flag = (CHOOSE b \in flags : TRUE)
                       /\ deleteFile \/ removeOk
                       /\ dirs' = GetOrCreateDirPath(pid, Dir(inProject))
                       /\ rows' = rows2
                       /\ disk' = IF deleteFile
                                      THEN Remove(disk1, RemovedFile(file, rows2[file.id], McfsRoot),
                                                  removeOk)
                                  ELSE disk1
                       /\ handles' = Append(handles,
                             [NewHandle(file, TRUE, "scp", McfsRoot)
                                 EXCEPT !.isOpen = FALSE,
                                        !.hasher = SubSeq(data, 1, hashed),
                                        !.sent = data,
                                        !.failed = copied < Len(data),
                                        !.doneOk = doneOk,
                                        !.duplicate = deleteFile,
                                        !.removeOk = removeOk,
                                        !.doneWith = [checksum |-> c.checksum,
                                                      size |-> c.size],
                                        !.after = FileByPathIn(rows2, pid, inProject)])
                       /\ scp' = ScpReturn(r, "Write", path, c.written, Nil, NilEntry, {})
    /\ UNCHANGED <<codec, lister, loaders, storeVars, cacheVars, workers, histVars>>

\* Write(s, entry), lines 274-352, over a store whose DoneWritingToFile returns
\* false whenever it returns an error.
Write(path, data, userOk) == WriteWith(path, data, userOk, {FALSE})

----------------------------------------------------------------------------
(* The Project store changes under a running session: a project is created *)
(* or deleted, access is granted or revoked.                               *)

StoreChange(s) ==
    /\ storeChanges < MaxStoreChanges
    /\ storeChanges' = storeChanges + 1
    /\ \/ /\ storeProjects' = (IF s \in storeProjects THEN storeProjects \ {s}
                                                      ELSE storeProjects \cup {s})
          /\ UNCHANGED storeAccess
       \/ /\ storeAccess' = (IF s \in storeAccess THEN storeAccess \ {s}
                                                  ELSE storeAccess \cup {s})
          /\ UNCHANGED storeProjects
    /\ UNCHANGED <<codec, lister, loaders, cacheVars, workers, histVars, repoVars, scp>>

----------------------------------------------------------------------------
(* Spec: one SFTP session, its callbacks running on the worker pool.       *)

\* The request paths of the session, as the request server hands them over
\* (absolute and cleaned): the root, project roots, files and a directory.
SftpPaths == { <<"/">>, <<"/", "p", "/", "f">> }

\* The projects those paths name.
SftpSlugs == {GetProjectSlugFromPath(path) : path \in SftpPaths} \cap Slugs

CmdMethods == {"Mkdir", "Rename"}
ListMethods == {"List", "Stat"}

\* No listing.
NilLister ==
    [f |-> <<>>, next |-> 0, got |-> <<>>, eof |-> FALSE,
     last |-> [offset |-> 0, len |-> 0, n |-> 0, eof |-> FALSE]]

\* No call of the path helpers.
NilCodec == [S |-> <<>>, P |-> <<>>, applied |-> FALSE, slug |-> <<>>, rest |-> <<>>]

\* mcscp.NewMCFSHandler: no user, no project, no failure; and no callback yet.
NilScp ==
    [user |-> FALSE, uid |-> "", project |-> NilProject, fatal |-> FALSE, why |-> "",
     conn |-> SessionUser, by |-> SessionUser, cb |-> "", path |-> <<>>, sawFatal |-> FALSE, calls |-> 0, reads |-> 0,
     written |-> 0, err |-> Nil, entry |-> NilEntry, walked |-> {}, visits |-> <<>>, listed |-> {},
     panicked |-> FALSE]

Init ==
    /\ storeProjects \in {Slugs, Slugs \ SftpSlugs}
    /\ storeAccess \in SUBSET SftpSlugs
    /\ storeChanges = 0
    /\ projects = <<>>
    /\ projectsWithoutAccess = {}
    /\ workers = [t \in Workers |-> IdleWorker]
    /\ lookups = [s \in AllSlugs |-> 0]
    /\ returned = {}
    /\ denyReason = [s \in AllSlugs |-> ""]
    /\ dirs = {<<ProjectID(s), <<"/">>>> : s \in Slugs}
    /\ rows = OldRows
    /\ disk = (<<McfsRoot, OldFile.uuid>> :> <<1>>)
    /\ handles = <<>>
    /\ scp = NilScp
    /\ codec = NilCodec
    /\ lister = NilLister
    /\ loaders = [c \in Conns |-> IdleLoader]

Next ==
    \/ \E t \in Workers, path \in SftpPaths, m \in CmdMethods : Filecmd(t, path, m)
    \/ \E t \in Workers, path \in SftpPaths : Lstat(t, path)
    \/ \E t \in Workers : LoadProjects(t)
    \/ \E t \in Workers : LoadDenied(t)
    \/ \E t \in Workers : LookupProject(t)
    \/ \E t \in Workers : CheckAccess(t)
    \/ \E t \in Workers : StoreDenied(t)
    \/ \E t \in Workers : StoreProject(t)
    \/ \E t \in Workers : FilecmdBody(t)
    \/ \E t \in Workers : LstatBody(t)
    \/ \E s \in SftpSlugs : StoreChange(s)

Spec == Init /\ [][Next]_vars

----------------------------------------------------------------------------
(* SpecUpload: the write pipeline of an SFTP session.  One worker opens    *)
(* files for write; the request server writes to and closes the handles.   *)

\* The paths uploads go to: two files of project p, and for SFTP one of project q.
ScpPaths == { <<"/", "p", "/", "f">>, <<"/", "p", "/", "g">> }
UploadPaths == ScpPaths \cup { <<"/", "q", "/", "f">> }

\* The byte streams of at most n bytes.
RECURSIVE Streams(_)
Streams(n) ==
    IF n = 0 THEN {<<>>}
    ELSE Streams(n - 1) \cup {Append(d, b) : d \in {e \in Streams(n - 1) : Len(e) = n - 1}, b \in Bytes}

\* The user can access p and cannot access q.
InitUpload ==
    /\ storeProjects = Slugs
    /\ storeAccess = {<<"p">>}
    /\ storeChanges = 0
    /\ projects = <<>>
    /\ projectsWithoutAccess = {}
    /\ workers = [t \in Workers |-> IdleWorker]
    /\ lookups = [s \in AllSlugs |-> 0]
    /\ returned = {}
    /\ denyReason = [s \in AllSlugs |-> ""]
    /\ dirs = {<<ProjectID(s), <<"/">>>> : s \in Slugs}
    /\ rows = OldRows
    /\ disk = (<<McfsRoot, OldFile.uuid>> :> <<1>>)
    /\ handles = <<>>
    /\ scp = NilScp
    /\ codec = NilCodec
    /\ lister = NilLister
    /\ loaders = [c \in Conns |-> IdleLoader]

NextUpload ==
    \/ \E path \in UploadPaths, flag \in BOOLEAN : Filewrite("w1", path, flag)
    \/ LoadProjects("w1")
    \/ LoadDenied("w1")
    \/ LookupProject("w1")
    \/ CheckAccess("w1")
    \/ StoreDenied("w1")
    \/ StoreProject("w1")
    \/ FilewriteBody("w1")
    \/ \E i \in 1..MaxFiles, b \in Bytes, offset \in 0..MaxBytes, ok \in BOOLEAN :
          WriteAt(i, <<b>>, offset, IF ok THEN 1 ELSE 0, ok)
    \/ \E i \in 1..MaxFiles, statOk \in BOOLEAN, doneOk \in BOOLEAN, removeOk \in BOOLEAN :
          /\ i \in DOMAIN handles /\ handles[i].isOpen
          /\ Close(i, statOk, doneOk, removeOk, TRUE)

SpecUpload == InitUpload /\ [][NextUpload]_vars

----------------------------------------------------------------------------
(* SpecHandles: the handles of an SFTP session.  One worker opens files    *)
(* for read and for write; the request server writes to the handles and    *)
(* closes them, some of them more than once.  Every write succeeds.        *)

\* The files opened for read: the one the Repository holds, and one of a project
\* the user cannot access.
ReadPaths == { <<"/", "p", "/", "f">>, <<"/", "q", "/", "f">> }

\* The file opened for write.
WritePath == <<"/", "p", "/", "g">>

NextHandles ==
    \/ \E path \in ReadPaths, flag \in BOOLEAN : Fileread("w1", path, flag)
    \/ \E flag \in BOOLEAN : Filewrite("w1", WritePath, flag)
    \/ LoadProjects("w1")
    \/ LoadDenied("w1")
    \/ LookupProject("w1")
    \/ CheckAccess("w1")
    \/ StoreDenied("w1")
    \/ StoreProject("w1")
    \/ FilereadBody("w1")
    \/ FilewriteBody("w1")
    \/ \E i \in 1..MaxFiles, b \in Bytes, offset \in 0..MaxBytes : WriteAt(i, <<b>>, offset, 1, TRUE)
    \/ \E i \in 1..MaxFiles, statOk \in BOOLEAN, doneOk \in BOOLEAN, removeOk \in BOOLEAN,
          closeOk \in BOOLEAN :
          Close(i, statOk, doneOk, removeOk, closeOk)

SpecHandles == InitUpload /\ [][NextHandles]_vars

----------------------------------------------------------------------------
(* SpecWrites: the writes of an SFTP session, one WriteAt at a time, with  *)
(* buffers of several bytes and writes that fail part-way.                 *)

\* The files opened for write: one of project p, and one of a project the user
\* cannot access.
WritePaths == { WritePath, <<"/", "q", "/", "f">> }

\* The buffers of WriteAt calls: one of each length, its bytes alternating.
Buffers == {[k \in 1..n |-> k % 2] : n \in 1..MaxBuf}

NextWrites ==
    \/ \E path \in WritePaths, flag \in BOOLEAN : Filewrite("w1", path, flag)
    \/ LoadProjects("w1")
    \/ LoadDenied("w1")
    \/ LookupProject("w1")
    \/ CheckAccess("w1")
    \/ StoreDenied("w1")
    \/ StoreProject("w1")
    \/ FilewriteBody("w1")
    \/ \E i \in 1..MaxFiles, b \in Buffers, offset \in 0..MaxBytes, n \in 0..MaxBuf,
          ok \in BOOLEAN :
          WriteAt(i, b, offset, n, ok)
    \/ \E i \in 1..MaxFiles, statOk \in BOOLEAN, doneOk \in BOOLEAN, removeOk \in BOOLEAN :
          /\ i \in DOMAIN handles /\ handles[i].isOpen
          /\ Close(i, statOk, doneOk, removeOk, TRUE)

SpecWrites == InitUpload /\ [][NextWrites]_vars

----------------------------------------------------------------------------
(* SpecConcurrentWrites: the writes of an SFTP session whose client sends  *)
(* the WriteAt requests of a file without waiting for the answers; it      *)
(* closes the file when every WriteAt has returned.                        *)

\* The WriteAt calls in flight on a handle.
Calls == {[seq |-> k, b |-> b] : k \in 1..MaxCalls, b \in Buffers}

NextConcurrentWrites ==
    \/ \E path \in WritePaths, flag \in BOOLEAN : Filewrite("w1", path, flag)
    \/ LoadProjects("w1")
    \/ LoadDenied("w1")
    \/ LookupProject("w1")
    \/ CheckAccess("w1")
    \/ StoreDenied("w1")
    \/ StoreProject("w1")
    \/ FilewriteBody("w1")
    \/ \E i \in 1..MaxFiles, b \in Buffers, offset \in 0..MaxBuf, n \in 0..MaxBuf,
          ok \in BOOLEAN :
          WriteAtFile(i, b, offset, n, ok)
    \/ \E i \in 1..MaxFiles, c \in Calls : WriteAtHash(i, c)
    \/ \E i \in 1..MaxFiles, c1 \in Calls, c2 \in Calls : WriteAtHashRace(i, c1, c2)
    \/ \E i \in 1..MaxFiles, statOk \in BOOLEAN, doneOk \in BOOLEAN, removeOk \in BOOLEAN :
          /\ i \in DOMAIN handles /\ handles[i].isOpen /\ handles[i].pending = {}
          /\ Close(i, statOk, doneOk, removeOk, TRUE)

SpecConcurrentWrites == InitUpload /\ [][NextConcurrentWrites]_vars

----------------------------------------------------------------------------
(* SpecOpen: one SFTP session that makes directories and opens files for   *)
(* write, in directories that exist and in one that may not exist yet.     *)

\* The directory the session makes.
OpenDir == <<"/", "p", "/", "d">>

\* The files opened for write: in the root of a project, in the directory, and
\* in a project the user cannot access.
OpenPaths == { <<"/", "p", "/", "f">>, <<"/", "p", "/", "d", "/", "f">>, <<"/", "q", "/", "f">> }

NextOpen ==
    \/ Filecmd("w1", OpenDir, "Mkdir")
    \/ \E path \in OpenPaths, flag \in BOOLEAN : Filewrite("w1", path, flag)
    \/ LoadProjects("w1")
    \/ LoadDenied("w1")
    \/ LookupProject("w1")
    \/ CheckAccess("w1")
    \/ StoreDenied("w1")
    \/ StoreProject("w1")
    \/ FilecmdBody("w1")
    \/ FilewriteBody("w1")

SpecOpen == InitUpload /\ [][NextOpen]_vars

----------------------------------------------------------------------------
(* SpecScp: one SCP session that uploads files.                            *)

\* The directories a recursive upload creates.
ScpDirs == { <<"/", "p", "/", "d">>, <<"/", "p", "/", "e">> }

\* Mkdir is also asked for the root.
ScpRoot == <<"/">>

NextScp ==
    \/ \E path \in ScpDirs \cup {ScpRoot}, userOk \in BOOLEAN, storeOk \in BOOLEAN :
          Mkdir(path, userOk, storeOk)
    \/ \E path \in ScpPaths, data \in Streams(MaxBytes), userOk \in BOOLEAN :
          Write(path, data, userOk)

SpecScp == InitUpload /\ [][NextScp]_vars

----------------------------------------------------------------------------
(* SpecScpWrite: one SCP session that uploads single files, not            *)
(* recursively: Mkdir is not called, Write makes the directories.          *)

\* The files the client uploads: into a directory in a directory, neither of
\* which project p has yet, and into its root.
ScpNewPaths == { <<"/", "p", "/", "d", "/", "e", "/", "g">>, <<"/", "p", "/", "g">> }

NextScpWrite ==
    \E path \in ScpNewPaths, data \in Streams(MaxBytes) : Write(path, data, TRUE)

SpecScpWrite == InitUpload /\ [][NextScpWrite]_vars

----------------------------------------------------------------------------
(* SpecUploadBoth: one upload of a file to /p/g, through SFTP (Filewrite,  *)
(* WriteAt calls that succeed, Close) or through SCP Write.                *)

NextUploadBoth ==
    \/ Filewrite("w1", WritePath, TRUE)
    \/ LoadProjects("w1")
    \/ LoadDenied("w1")
    \/ LookupProject("w1")
    \/ CheckAccess("w1")
    \/ StoreProject("w1")
    \/ FilewriteBody("w1")
    \/ \E i \in 1..MaxFiles, b \in Bytes, offset \in 0..MaxBytes :
          WriteAt(i, <<b>>, offset, 1, TRUE)
    \/ \E i \in 1..MaxFiles, statOk \in BOOLEAN, doneOk \in BOOLEAN, removeOk \in BOOLEAN :
          /\ i \in DOMAIN handles /\ handles[i].isOpen
          /\ Close(i, statOk, doneOk, removeOk, TRUE)
    \/ \E data \in Streams(MaxBytes) : Write(WritePath, data, TRUE)

SpecUploadBoth == InitUpload /\ [][NextUploadBoth]_vars

----------------------------------------------------------------------------
(* SpecScpLoads: the SCP server with two connections at one time; each     *)
(* calls loadProjectAndUserIntoHandler, as the first thing every callback  *)
(* does, and the steps of the two calls interleave.                        *)

\* The paths of the callbacks: in a project the first user can access, and in
\* one nobody can.
LoadPaths == { <<"/", "p", "/", "f">>, <<"/", "q", "/", "d">> }

NextScpLoads ==
    \/ \E c \in Conns, path \in LoadPaths, userOk \in BOOLEAN : LoadBegin(c, path, userOk)
    \/ \E c \in Conns : LoadUser(c)
    \/ \E c \in Conns : LoadProject(c)
    \/ \E c \in Conns : LoadAssign(c)

SpecScpLoads == InitUpload /\ [][NextScpLoads]_vars

----------------------------------------------------------------------------
(* SpecScpDone: the uploads of SpecScpWrite over a store whose             *)
(* DoneWritingToFile may return either boolean with an error.              *)

NextScpDone ==
    \E path \in ScpNewPaths, data \in Streams(MaxBytes) : WriteWith(path, data, TRUE, BOOLEAN)

SpecScpDone == InitUpload /\ [][NextScpDone]_vars

----------------------------------------------------------------------------
(* SpecScpSession: one SCP session that copies in both directions, every   *)
(* callback of the handler in any order.  The files it uploads are empty:  *)
(* what Write does with the bytes is SpecScp's.                            *)

\* The paths a client copies from: a project's root, a directory of a project the
\* user cannot access, and a relative path.
ScpReadDirs == { <<"/", "p">>, <<"/", "q", "/", "d">>, <<"d">> }

\* The file a client copies from.
ScpReadFile == <<"/", "p", "/", "f">>

NextScpSession ==
    \/ \E path \in ScpDirs \cup {ScpRoot}, userOk \in BOOLEAN, storeOk \in BOOLEAN :
          Mkdir(path, userOk, storeOk)
    \/ \E path \in ScpPaths, userOk \in BOOLEAN : Write(path, <<>>, userOk)
    \/ Glob(ScpReadFile)
    \/ \E userOk \in BOOLEAN, fnOk \in BOOLEAN : WalkDir(<<"/", "p">>, userOk, fnOk)
    \/ \E name \in ScpReadDirs, userOk \in BOOLEAN : NewDirEntry(name, userOk)
    \/ \E userOk \in BOOLEAN, openOk \in BOOLEAN : NewFileEntry(ScpReadFile, userOk, openOk)

SpecScpSession == InitUpload /\ [][NextScpSession]_vars

----------------------------------------------------------------------------
(* SpecScpServer: the SCP server with connections of two users, one after  *)
(* the other, each calling the callbacks of the handler.                   *)

NextScpServer ==
    \/ \E u \in {SessionUser, OtherUser} : Connect(u)
    \/ \E path \in ScpDirs \cup {ScpRoot}, userOk \in BOOLEAN, storeOk \in BOOLEAN :
          Mkdir(path, userOk, storeOk)
    \/ \E path \in ScpPaths, userOk \in BOOLEAN : Write(path, <<>>, userOk)
    \/ Glob(ScpReadFile)
    \/ \E userOk \in BOOLEAN, fnOk \in BOOLEAN : WalkDir(<<"/", "p">>, userOk, fnOk)
    \/ \E name \in ScpReadDirs, userOk \in BOOLEAN : NewDirEntry(name, userOk)
    \/ \E userOk \in BOOLEAN, openOk \in BOOLEAN : NewFileEntry(ScpReadFile, userOk, openOk)

SpecScpServer == InitUpload /\ [][NextScpServer]_vars

----------------------------------------------------------------------------
(* SpecScpWalk: one SCP session that makes directories in project p and    *)
(* copies trees of it to the client, under every fs.WalkDirFunc of the     *)
(* model and with a listing of the store that may fail.                    *)

\* The directories the client makes: one in another, and one beside them.
WalkMade == { <<"/", "p", "/", "d">>, <<"/", "p", "/", "d", "/", "e">>, <<"/", "p", "/", "g">> }

\* The paths the client copies from: the project's root, a directory that may
\* exist, and one that does not.
WalkRoots == { <<"/", "p">>, <<"/", "p", "/", "d">>, <<"/", "p", "/", "x">> }

\* The paths in the project at which fn may return other than nil.
WalkNodes == { <<"/">>, <<"/", "d">>, <<"/", "d", "/", "e">>, <<"/", "g">>, <<"/", "f">> }

\* The directories whose listing may fail; <<>> is none.
WalkFails == { <<>>, <<"/", "d">>, <<"/", "g">> }

Visitors ==
    {Visitor(at, ret, onErr, failAt) :
        at \in WalkNodes, ret \in Verdicts, onErr \in Verdicts, failAt \in WalkFails}

NextScpWalk ==
    \/ \E path \in WalkMade : Mkdir(path, TRUE, TRUE)
    \/ \E path \in WalkRoots, v \in Visitors : WalkDirWith(path, TRUE, v)

SpecScpWalk == InitUpload /\ [][NextScpWalk]_vars

----------------------------------------------------------------------------
(* SpecBrowse: one SFTP session whose requests run one after the other:    *)
(* commands, listings and opens for write, on the root and in projects.    *)

\* The request paths: the root, a project's root, and files of two projects.
BrowsePaths == { <<"/">>, <<"/", "p">>, <<"/", "p", "/", "f">>, <<"/", "q", "/", "f">> }

\* The methods of Filecmd requests; Remove is one the switch does not name.
BrowseCmds == {"Mkdir", "Rename", "Rmdir", "Setstat", "Link", "Symlink", "Remove"}

\* The methods of Filelist requests.
BrowseLists == ListMethods \cup {"Readlink"}

\* Any set of projects exists, and the user can access any of them.
InitBrowse ==
    /\ storeProjects \in SUBSET Slugs
    /\ storeAccess \in SUBSET storeProjects
    /\ storeChanges = 0
    /\ projects = <<>>
    /\ projectsWithoutAccess = {}
    /\ workers = [t \in Workers |-> IdleWorker]
    /\ lookups = [s \in AllSlugs |-> 0]
    /\ returned = {}
    /\ denyReason = [s \in AllSlugs |-> ""]
    /\ dirs = {<<ProjectID(s), <<"/">>>> : s \in Slugs}
    /\ rows = OldRows
    /\ disk = (<<McfsRoot, OldFile.uuid>> :> <<1>>)
    /\ handles = <<>>
    /\ scp = NilScp
    /\ codec = NilCodec
    /\ lister = NilLister
    /\ loaders = [c \in Conns |-> IdleLoader]

NextBrowse ==
    \/ \E path \in BrowsePaths, m \in BrowseCmds : Filecmd("w1", path, m)
    \/ \E path \in BrowsePaths, m \in BrowseLists : Filelist("w1", path, m)
    \/ \E path \in BrowsePaths, flag \in BOOLEAN : Filewrite("w1", path, flag)
    \/ LoadProjects("w1")
    \/ LoadDenied("w1")
    \/ LookupProject("w1")
    \/ CheckAccess("w1")
    \/ StoreDenied("w1")
    \/ StoreProject("w1")
    \/ FilecmdBody("w1")
    \/ FilelistBody("w1")
    \/ FilewriteBody("w1")

SpecBrowse == InitBrowse /\ [][NextBrowse]_vars

----------------------------------------------------------------------------
(* SpecPath: the path helpers of pkg/mc/util.go, called once with the path *)
(* "/" + S + P of a slug S and a sub-path P.                               *)

\* The characters of a sub-path: the separator, the dot and a letter.
PathChars == {"/", ".", "p"}

\* The strings of at most n characters.
RECURSIVE Strings(_)
Strings(n) ==
    IF n = 0 THEN {<<>>}
    ELSE Strings(n - 1) \cup {Append(t, c) : t \in {u \in Strings(n - 1) : Len(u) = n - 1},
                                               c \in PathChars}

\* The sub-paths: the empty one, and those that start with the separator.
SubPaths == {<<>>} \cup {<<"/">> \o t : t \in Strings(MaxPathLen - 1)}

\* The slugs: one is a prefix of the other.
PathSlugs == { <<"p">>, <<"p", "p">> }

InitPath ==
    /\ storeProjects = Slugs
    /\ storeAccess = {<<"p">>}
    /\ storeChanges = 0
    /\ projects = <<>>
    /\ projectsWithoutAccess = {}
    /\ workers = [t \in Workers |-> IdleWorker]
    /\ lookups = [s \in AllSlugs |-> 0]
    /\ returned = {}
    /\ denyReason = [s \in AllSlugs |-> ""]
    /\ dirs = {<<ProjectID(s), <<"/">>>> : s \in Slugs}
    /\ rows = OldRows
    /\ disk = (<<McfsRoot, OldFile.uuid>> :> <<1>>)
    /\ handles = <<>>
    /\ scp = NilScp
    /\ codec \in {[NilCodec EXCEPT !.S = S, !.P = P] : S \in PathSlugs, P \in SubPaths}
    /\ lister = NilLister
    /\ loaders = [c \in Conns |-> IdleLoader]

\* GetProjectSlugFromPath(path) and RemoveProjectSlugFromPath(path, S), as a
\* callback calls them with the path of its request.
SplitAndStrip ==
    /\ ~codec.applied
    /\ LET path == <<"/">> \o codec.S \o codec.P
       IN codec' = [codec EXCEPT !.applied = TRUE,
                                 !.slug = GetProjectSlugFromPath(path),
                                 !.rest = RemoveProjectSlugFromPath(path, codec.S)]
    /\ UNCHANGED <<lister, loaders, storeVars, cacheVars, workers, histVars, repoVars, scp>>

NextPath == SplitAndStrip

SpecPath == InitPath /\ [][NextPath]_vars

----------------------------------------------------------------------------
(* SpecList: pkg/mcsftp/listerat.go, a snapshot read by ListAt calls.      *)

\* Go's min of two ints, as copy takes it.
Min(a, b) == IF a <= b THEN a ELSE b

\* A ListAt that copies from the start of the snapshot whatever the offset.
ListAtFromStart(f, len, offset) ==
    LET n == Min(len, Len(f))
    IN [n |-> n, files |-> SubSeq(f, 1, n), eof |-> n < len]

\* listerat.ListAt(files, offset) with len(files) = len: the number of entries
\* copied, the entries, and whether the error is io.EOF.
ListAt(f, len, offset) ==
    IF offset >= Len(f) THEN [n |-> 0, files |-> <<>>, eof |-> TRUE]
    ELSE LET n == Min(len, Len(f) - offset)
         IN [n |-> n, files |-> SubSeq(f, offset + 1, offset + n), eof |-> n < len]

\* The snapshots: k entries, told apart by their position in the snapshot.
Snapshots == {[k \in 1..n |-> k] : n \in 0..MaxEntries}

InitList ==
    /\ storeProjects = Slugs
    /\ storeAccess = {<<"p">>}
    /\ storeChanges = 0
    /\ projects = <<>>
    /\ projectsWithoutAccess = {}
    /\ workers = [t \in Workers |-> IdleWorker]
    /\ lookups = [s \in AllSlugs |-> 0]
    /\ returned = {}
    /\ denyReason = [s \in AllSlugs |-> ""]
    /\ dirs = {<<ProjectID(s), <<"/">>>> : s \in Slugs}
    /\ rows = OldRows
    /\ disk = (<<McfsRoot, OldFile.uuid>> :> <<1>>)
    /\ handles = <<>>
    /\ scp = NilScp
    /\ codec = NilCodec
    /\ lister \in {[NilLister EXCEPT !.f = f] : f \in Snapshots}
    /\ loaders = [c \in Conns |-> IdleLoader]

\* The reader's next call: a buffer of len entries, at the offset where its
\* previous call stopped. It makes no call after end-of-stream.
ReadOn(len) ==
    /\ ~lister.eof
    /\ LET r == ListAt(lister.f, len, lister.next)
       IN lister' = [lister EXCEPT !.next = @ + r.n,
                                   !.got = @ \o r.files,
                                   !.eof = r.eof,
                                   !.last = [offset |-> lister.next, len |-> len,
                                             n |-> r.n, eof |-> r.eof]]
    /\ UNCHANGED <<codec, loaders, storeVars, cacheVars, workers, histVars, repoVars, scp>>

\* A call at any offset, outside the reader's sequence.
ListAtOffset(len, offset) ==
    /\ LET r == ListAt(lister.f, len, offset)
       IN lister' = [lister EXCEPT !.last = [offset |-> offset, len |-> len,
                                             n |-> r.n, eof |-> r.eof]]
    /\ UNCHANGED <<codec, loaders, storeVars, cacheVars, workers, histVars, repoVars, scp>>

NextList ==
    \/ \E len \in 1..MaxListBuf : ReadOn(len)
    \/ \E len \in 1..MaxListBuf, offset \in 0..(MaxEntries + 1) : ListAtOffset(len, offset)

\* The reader goes on calling until end-of-stream.
SpecList == InitList /\ [][NextList]_vars /\ WF_vars(\E len \in 1..MaxListBuf : ReadOn(len))

----------------------------------------------------------------------------
(* The project caches of a session (spec section 3 and 4.3), under Spec.   *)

\* A getProject call has returned its verdict for the worker's request.
Resolved(t) == workers[t].pc \in {"body", "done"} /\ workers[t].why # ""

\* The verdict was a failure that put, or found, the slug in the denied set.
Denied(t) == workers[t].pc = "done" /\ workers[t].why \in {"missing", "forbidden", "denied"}

\* C1: no project slug is at once in the resolved-projects cache and in the
\* denied-slugs cache, whatever the interleaving and the store's answers.
CachesDisjoint == DOMAIN projects \cap projectsWithoutAccess = {}

\* C2: within a session the Project store is asked for a slug at most once, also
\* when several callbacks naming the slug run at the same time.
OneLookupPerSlug == \A s \in AllSlugs : lookups[s] <= 1

\* C3: a resolve that starts after a resolve of the same slug has returned makes
\* no call of the Project store (so the two make at most one lookup), and one
\* that starts with the slug resolved returns the cached record, even if the
\* store would no longer grant access.
ResolverIdempotent ==
    \A t \in Workers :
        /\ workers[t].sawReturned => workers[t].calls = 0
        /\ workers[t].sawResolved /\ Resolved(t) =>
              /\ workers[t].project = Project(SlugOf(workers[t]))
              /\ workers[t].why = "cached"

\* C3, its case: a resolve started after the slug had resolved and access had
\* been revoked, and it has returned the cached record without a store call.
ResolvedAfterRevocation ==
    \E t \in Workers :
        /\ workers[t].sawResolved /\ Resolved(t)
        /\ SlugOf(workers[t]) \notin storeAccess
        /\ workers[t].project = Project(SlugOf(workers[t]))
        /\ workers[t].calls = 0

\* C4: a resolve that starts with its slug in the denied-slugs set fails, and
\* calls neither GetProjectBySlug nor UserCanAccessProject.
DeniedStaysDenied ==
    \A t \in Workers :
        workers[t].sawDenied =>
            /\ workers[t].calls = 0
            /\ workers[t].project = NilProject
            /\ workers[t].pc # "body"

\* C5: a callback returns the same error for a slug that names no project as for
\* a slug of a project the user cannot access, on the first request for the slug
\* and on later ones, and both slugs are then in the denied-slugs set.
MissingLikeForbidden ==
    \A t \in Workers, u \in Workers :
        /\ Denied(t) /\ Denied(u) /\ workers[t].cb = workers[u].cb
        /\ \/ workers[t].why = "missing" /\ workers[u].why = "forbidden"
           \/ /\ workers[t].why = "denied" /\ workers[u].why = "denied"
              /\ denyReason[SlugOf(workers[t])] = "missing"
              /\ denyReason[SlugOf(workers[u])] = "forbidden"
        => /\ workers[t].err.msg = workers[u].err.msg
           /\ {SlugOf(workers[t]), SlugOf(workers[u])} \subseteq projectsWithoutAccess

\* C6: a callback that takes a path in a project the user cannot access returns
\* the "does not exist" error.
ForbiddenIsNotExist ==
    \A t \in Workers :
        /\ Denied(t)
        /\ \/ workers[t].why = "forbidden"
           \/ workers[t].why = "denied" /\ denyReason[SlugOf(workers[t])] = "forbidden"
        => workers[t].err = ErrNotExist

----------------------------------------------------------------------------
(* The write pipeline (spec sections 3, 4.4, 4.6 and 8), under SpecScp and *)
(* SpecUpload.                                                             *)

\* The handles of uploads that have ended: close, or SCP's Write, has returned.
Uploaded == {i \in DOMAIN handles : handles[i].openForWrite /\ ~handles[i].isOpen}

\* The bytes of the physical file a row names, <<>> if there is no such file.
ContentOf(row) ==
    IF UnderlyingFilePath(row, McfsRoot) \in DOMAIN disk
        THEN disk[UnderlyingFilePath(row, McfsRoot)] ELSE <<>>

\* C7: a logical file is current only if all bytes of its upload were written to
\* its physical file and its size and checksum were recorded, whatever failed
\* while the bytes were transferred.
CurrentOnlyWhenComplete ==
    \A i \in DOMAIN handles :
        handles[i].openForWrite /\ rows[handles[i].file.id].current =>
            /\ ~handles[i].failed
            /\ ContentOf(rows[handles[i].file.id]) = handles[i].sent
            /\ rows[handles[i].file.id].size = Len(handles[i].sent)
            /\ rows[handles[i].file.id].checksum = Checksum(handles[i].sent)

\* What GetFileByPath gave when the upload of handle h ended is a current file
\* with the size of the bytes written and the checksum of the handle's digest.
ReadsBackWhatWasWritten(h) ==
    /\ h.after.found /\ h.after.id # 0
    /\ rows[h.after.id].size = Len(h.hasher)
    /\ rows[h.after.id].checksum = Checksum(h.hasher)

DuplicateIsRemoved ==
    \A i \in Uploaded, j \in DOMAIN rows :
        /\ handles[i].duplicate /\ handles[i].removeOk
        /\ rows[handles[i].file.id].usesUuid = rows[j].uuid
        /\ rows[j].project = handles[i].file.project
        /\ PathOf(rows[j]) # PathOf(handles[i].file)
        => <<McfsRoot, handles[i].file.uuid>> \notin DOMAIN disk

\* C10: once an upload has ended, the physical file created for it is either the
\* file of the logical file that was made current, or it has been removed
\* because a duplicate superseded it.
CommittedOrRemoved ==
    \A i \in Uploaded :
        \/ /\ <<McfsRoot, handles[i].file.uuid>> \in DOMAIN disk
           /\ ~handles[i].duplicate
           /\ handles[i].after.found /\ handles[i].after.id = handles[i].file.id
        \/ /\ <<McfsRoot, handles[i].file.uuid>> \notin DOMAIN disk
           /\ handles[i].duplicate

----------------------------------------------------------------------------
(* Versions of a logical path (spec sections 4.5 and 8), under SpecUpload. *)

\* A step keeps every row: none is removed or overwritten, each keeps its path,
\* its physical file and its version, and a new row gets a higher version than
\* every row its path already has.
RowsKept ==
    /\ Len(rows') >= Len(rows)
    /\ \A i \in 1..Len(rows) :
          /\ rows'[i].id = rows[i].id /\ rows'[i].uuid = rows[i].uuid
          /\ SamePath(rows'[i], rows[i])
          /\ Version(rows', i) = Version(rows, i)
    /\ \A i \in (Len(rows) + 1)..Len(rows') : \A j \in 1..Len(rows) :
          SamePath(rows'[j], rows'[i]) => Version(rows', j) < Version(rows', i)

\* A step takes the current-flag from a row only when it commits another row of
\* the same path.
EarlierStaysCurrent ==
    \A i \in 1..Len(rows) :
        rows[i].current /\ ~rows'[i].current =>
            \E j \in 1..Len(rows') :
                /\ j # i /\ SamePath(rows'[j], rows[i]) /\ rows'[j].current
                /\ j > Len(rows) \/ ~rows[j].current

\* The write handles whose upload ends in this step.
ClosingNow ==
    {i \in DOMAIN handles' :
        /\ handles'[i].openForWrite /\ ~handles'[i].isOpen
        /\ i \in DOMAIN handles => handles[i].isOpen}

\* After the step the only current row of the path of handle i is the row of
\* its upload.
OnlyCurrentAfter(i) ==
    CurrentFilesAt(rows', handles'[i].file.project, PathOf(handles'[i].file))
        = {handles'[i].file.id}

----------------------------------------------------------------------------
(* Commands and listings of an SFTP session (spec sections 4.5 and 8),     *)
(* under SpecBrowse.                                                       *)

\* strings.HasPrefix on an error text.
StartsWith(msg, prefix) == Len(msg) >= Len(prefix) /\ SubSeq(msg, 1, Len(prefix)) = prefix

\* Worker t has returned from a Filecmd whose method is not Mkdir.
OtherCmdDone(t) ==
    workers[t].pc = "done" /\ workers[t].cb = "Filecmd" /\ workers[t].method # "Mkdir"

\* Worker t takes a step of a Filecmd whose method is not Mkdir.
OtherCmdStep(t) ==
    /\ workers'[t] # workers[t]
    /\ workers'[t].cb = "Filecmd" /\ workers'[t].method # "Mkdir"

\* No step of such a Filecmd changes the Repository or the physical files.
OtherCmdsChangeNothing ==
    \A t \in Workers : OtherCmdStep(t) => UNCHANGED <<dirs, rows, disk>>

\* C12, as stated: every Filecmd whose method is not Mkdir returns an error
\* whose text starts with "unsupport", whatever its path, and changes nothing
\* in the Repository.
UnsupportedAsStated ==
    /\ [](\A t \in Workers : OtherCmdDone(t) => StartsWith(workers[t].err.msg, "unsupport"))
    /\ [][OtherCmdsChangeNothing]_vars

\* C12, amended: it returns that error when the project of its path resolved;
\* it changes nothing in the Repository in every case.
UnsupportedWhenResolved ==
    /\ [](\A t \in Workers :
             OtherCmdDone(t) /\ workers[t].why \in {"cached", "looked up"}
                 => StartsWith(workers[t].err.msg, "unsupport"))
    /\ [][OtherCmdsChangeNothing]_vars

\* C12, its case: a Filecmd with a method the switch does not name has returned
\* in a project the user can access.
CommandRefused ==
    \E t \in Workers :
        /\ OtherCmdDone(t) /\ workers[t].why \in {"cached", "looked up"}
        /\ workers[t].method = "Remove"
        /\ workers[t].err = Err("unsupport command: '%s'", <<"Remove">>)

\* C13: a List of the root that succeeds returns exactly one entry for each
\* project the user can access, each a directory named by the project's slug.
RootListsAccessibleProjects ==
    \A t \in Workers :
        /\ workers[t].pc = "done" /\ workers[t].cb = "Filelist"
        /\ workers[t].path = <<"/">> /\ workers[t].method = "List"
        => \/ workers[t].err = Err("unable to get list of projects: %s", <<>>)
           \/ /\ workers[t].err = Nil
              /\ workers[t].list = {[Name |-> sl, IsDir |-> TRUE] : sl \in storeProjects \cap storeAccess}
              /\ workers[t].calls = 0

\* C13, its case: the root was listed by a user who can access one project and
\* cannot access another that exists.
RootListed ==
    \E t \in Workers :
        /\ workers[t].pc = "done" /\ workers[t].cb = "Filelist"
        /\ workers[t].path = <<"/">> /\ workers[t].method = "List"
        /\ workers[t].err = Nil
        /\ workers[t].list # {}
        /\ storeProjects \ storeAccess # {}

----------------------------------------------------------------------------
(* The root of the namespace and the request paths (spec sections 4.1 and  *)
(* 8), under SpecScp, SpecBrowse and SpecScpSession.                       *)

\* C14: a command or an open for write of an SFTP session on the root, and a
\* Mkdir or a Write of an SCP session on the root, fail, whatever the session
\* has loaded before.
RootIsReadOnly ==
    /\ \A t \in Workers :
           /\ workers[t].pc = "done" /\ workers[t].cb \in {"Filecmd", "Filewrite"}
           /\ workers[t].path = <<"/">>
           => workers[t].err # Nil
    /\ scp.cb \in {"Mkdir", "Write"} /\ scp.path = <<"/">> => scp.err # Nil

\* C15: no callback of the SCP handler panics, whatever the path it is given.
NoPanic == ~scp.panicked

----------------------------------------------------------------------------
(* The SCP handler across the callbacks of a session (spec sections 4.6    *)
(* and 8), under SpecScpSession.                                           *)

\* The callbacks that load the user and the project.
LoadingCallbacks == {"WalkDir", "NewDirEntry", "NewFileEntry", "Mkdir", "Write"}

\* The last callback ran on a handler that had failed before it.
CalledAfterFailure == scp.sawFatal /\ scp.cb \in LoadingCallbacks

\* C19: a callback on a handler that has failed to load the user or to validate
\* the project returns the one error of a failed handler, without a call of the
\* Project store and without a read of the session context, and gives no entry
\* and no bytes.
FatalIsFinal ==
    CalledAfterFailure =>
        /\ scp.err = Err("fatal error user or project invalid", <<>>)
        /\ scp.calls = 0 /\ scp.reads = 0
        /\ scp.entry = NilEntry /\ scp.written = 0 /\ scp.walked = {}

\* C19, its case: a Write on a handler that failed because the user cannot
\* access the project of an earlier path.
WriteAfterFailure == CalledAfterFailure /\ scp.cb = "Write" /\ scp.why = "forbidden"

\* The last callback was a NewDirEntry that found the user in the session and
\* a slug in its path.
DirEntryAsked ==
    scp.cb = "NewDirEntry" /\ ~scp.panicked /\ scp.why # "user" /\ ~SlugPanics(scp.path)

\* The project named by the path of the last callback exists, the user can
\* access it, and it holds the directory of the path.
DirEntryExists ==
    LET slug == GetProjectSlugFromPath(scp.path)
    IN /\ slug \in storeProjects \cap storeAccess
       /\ GetDirByPath(ProjectID(slug), RemoveProjectSlugFromPath(scp.path, slug))

\* The project named by the path of the last callback does not exist, or does
\* not hold the directory of the path.
DirEntryMissing ==
    LET slug == GetProjectSlugFromPath(scp.path)
    IN \/ slug \notin storeProjects
       \/ ~GetDirByPath(ProjectID(slug), RemoveProjectSlugFromPath(scp.path, slug))

----------------------------------------------------------------------------
(* Closing a handle (spec section 4.4), under SpecHandles.                 *)

\* Handle i has been closed through SFTP.
Closed(i) == handles[i].via = "sftp" /\ handles[i].closes > 0

\* C16: Close returns success in every case: for a handle opened for read and
\* for one opened for write, when Stat fails, when DoneWritingToFile fails, when
\* the OS fails to close the file and when the removal of a duplicate fails.
CloseAlwaysSucceeds == \A i \in DOMAIN handles : Closed(i) => handles[i].ret = Nil

\* C16, its case: the close of a handle opened for write on which Stat failed
\* and the OS failed to close the file.
ClosedWithFailures ==
    \E i \in DOMAIN handles :
        /\ Closed(i) /\ handles[i].openForWrite
        /\ ~handles[i].statOk /\ ~handles[i].closeOk /\ handles[i].closes = 1

\* A step is a Close of handle i, which was closed before it.
ClosedAgain(i) ==
    /\ i \in DOMAIN handles /\ ~handles[i].isOpen
    /\ handles'[i].closes = handles[i].closes + 1

\* C17: a Close of a handle that is closed returns success, calls
\* DoneWritingToFile no further time, and commits and removes nothing.
CloseIsIdempotent ==
    [][\A i \in 1..Len(handles) :
          ClosedAgain(i) =>
              /\ handles'[i].ret = Nil
              /\ handles'[i].doneCalls = handles[i].doneCalls
              /\ UNCHANGED <<dirs, rows, disk>>]_vars

\* C17, its case: a handle opened for write was closed twice, the first close
\* having committed the file.
ClosedTwice ==
    \E i \in DOMAIN handles :
        /\ Closed(i) /\ handles[i].openForWrite
        /\ handles[i].closes = 2 /\ handles[i].doneCalls = 1
        /\ rows[handles[i].file.id].current

----------------------------------------------------------------------------
(* The path helpers (spec sections 4.1 and 8), under SpecPath.             *)

\* The spec's canonicalise for a sub-path: filepath.Clean, and "/" for the
\* empty sub-path.
Canonicalise(P) == IF P = <<>> THEN <<"/">> ELSE Clean(P)

\* C18: for a slug S and a sub-path P, the slug taken from "/" + S + P is S, and
\* the path with the slug removed is the canonical form of P, "/" when P is
\* empty.
PathRoundTrip ==
    codec.applied => codec.slug = codec.S /\ codec.rest = Canonicalise(codec.P)

----------------------------------------------------------------------------
(* The SCP handler across connections (spec sections 4.6 and 5), under     *)
(* SpecScpServer.                                                          *)

\* The last callback worked on its project: it loaded user and project and went
\* on to the rows of scp.project.
WorkedOnProject ==
    /\ scp.cb \in LoadingCallbacks /\ ~scp.panicked
    /\ scp.err \notin {Err("fatal error user or project invalid", <<>>),
                       Err("internal error user not set", <<>>),
                       ErrStoreNoProject}
    /\ scp.project # NilProject

\* C21: a callback that works on the rows of a project runs for the user of its
\* own connection, and that user can access the project: the user and the
\* project the handler holds for one connection serve no other connection.
HandlerPerConnection ==
    WorkedOnProject =>
        scp.uid = scp.by /\ UserCanAccessProjectAs(scp.by, scp.project)

----------------------------------------------------------------------------
(* The running hash of a handle opened for write (spec sections 4.4 and    *)
(* 5), under SpecWrites and SpecConcurrentWrites.                          *)

\* The bytes a step added to what the client asked handle i to write.
NewlySent(i) == SubSeq(handles'[i].sent, Len(handles[i].sent) + 1, Len(handles'[i].sent))

\* C22: a WriteAt whose write to the file fails leaves the hasher as it was; a
\* WriteAt whose write succeeds appends to the hasher exactly the bytes of its
\* buffer, all of which it wrote.
HashFollowsWrite ==
    [][\A i \in DOMAIN handles :
          handles'[i].sent # handles[i].sent =>
              IF handles'[i].arrived = handles[i].arrived
                  THEN handles'[i].hasher = handles[i].hasher
                  ELSE handles'[i].hasher = handles[i].hasher \o NewlySent(i)]_vars

\* C22, its case: a WriteAt of two bytes failed after one byte had reached the
\* file, and the hasher holds nothing.
WriteFailedPartWay ==
    \E i \in DOMAIN handles :
        /\ handles[i].via = "sftp" /\ handles[i].failed
        /\ Len(handles[i].sent) = 2 /\ handles[i].hasher = <<>>
        /\ Len(disk[UnderlyingFilePath(handles[i].file, McfsRoot)]) = 1

RECURSIVE Concat(_)
\* The buffers of a sequence, one after the other.
Concat(bufs) == IF bufs = <<>> THEN <<>> ELSE Head(bufs) \o Concat(Tail(bufs))

\* C23: when the WriteAt calls of a handle have returned, the hasher holds the
\* buffers of the calls that wrote to the file, whole and in the order the
\* calls came, and the checksum a Close commits is the digest of those bytes.
HashInArrivalOrder ==
    \A i \in DOMAIN handles :
        handles[i].via = "sftp" /\ handles[i].openForWrite /\ handles[i].pending = {} =>
            /\ handles[i].hasher = Concat(handles[i].arrived)
            /\ Closed(i) /\ handles[i].statOk /\ handles[i].doneOk =>
                   rows[handles[i].file.id].checksum = Checksum(Concat(handles[i].arrived))

----------------------------------------------------------------------------
(* Opening files through SFTP (spec section 4.4), under SpecHandles and    *)
(* SpecOpen.                                                               *)

\* Worker t has returned from a Fileread without the read flag or a Filewrite
\* without the write flag.
OpenedWithoutFlag(t) ==
    /\ workers[t].pc = "done" /\ workers[t].cb \in {"Fileread", "Filewrite"}
    /\ ~workers[t].flag

\* C26: a reader that calls ListAt with a non-empty buffer, each call at the
\* offset where the previous one stopped, has at every moment received the
\* entries before that offset, each once and in snapshot order; it has received
\* the whole snapshot when it is told end-of-stream, and it is told so in the
\* end. A call at an offset at or past the end of the snapshot returns zero
\* entries and end-of-stream.
ListingIsComplete ==
    /\ [](/\ lister.got = SubSeq(lister.f, 1, lister.next)
          /\ lister.eof => lister.got = lister.f
          /\ (lister.last.len > 0 /\ lister.last.offset >= Len(lister.f))
                => (lister.last.n = 0 /\ lister.last.eof))
    /\ <>lister.eof

\* A listing of several entries was read in more than one call, the last of
\* which filled its buffer, and a further call returned end-of-stream alone.
ListedInSeveralCalls ==
    /\ Len(lister.f) > 1
    /\ lister.eof
    /\ lister.got = lister.f
    /\ lister.last.n = 0
    /\ lister.last.offset = Len(lister.f)
    /\ lister.last.len < Len(lister.f)

\* A WalkDir of the handler's project has returned after calls of fn.
WalkReturned == scp.cb = "WalkDir" /\ ~scp.panicked /\ scp.visits # <<>>

\* Path a is path b or a directory above it.
AtOrAbove(a, b) == a \in DirPathClosure(b)

\* The directories and current files of the project at or under a path.
TreeUnder(pid, root) ==
    {d[2] : d \in {e \in dirs : e[1] = pid /\ AtOrAbove(root, e[2])}}
    \cup {Join(rows[i].dir, rows[i].name) :
            i \in {j \in 1..Len(rows) : /\ rows[j].project = pid /\ rows[j].current
                                         /\ AtOrAbove(root, rows[j].dir)}}

\* fn closed directory a during the walk: it returned skip-dir for it, or the
\* listing of a failed.
ClosedInWalk(a) ==
    \E i \in 1..Len(scp.visits) :
        scp.visits[i].path = a /\ (scp.visits[i].ret = "skip" \/ scp.visits[i].withErr)

\* C27: WalkDir calls fn for a directory before it calls fn for anything in the
\* directory; after fn has returned skip-dir for a directory, fn is called for
\* nothing in that directory, and when fn has returned nothing but nil and
\* skip-dir for directories, every other path of the tree has been passed to
\* fn; an error of fn that is not skip-dir is the last call of the walk and is
\* what WalkDir returns.
WalkIsPreOrder ==
    WalkReturned =>
        LET V == scp.visits
            pid == scp.project.ID
            root == V[1].path
            isDir(i) == ~V[i].nilEntry /\ GetDirByPath(pid, V[i].path)
        IN /\ \A j \in 1..Len(V) :
                V[j].path # root =>
                    \E i \in 1..(j - 1) : V[i].path = Dir(V[j].path) /\ ~V[i].withErr
           /\ \A i \in 1..Len(V) :
                (V[i].ret = "skip" /\ isDir(i)) =>
                    \A j \in (i + 1)..Len(V) :
                        V[j].path = V[i].path \/ ~AtOrAbove(V[i].path, V[j].path)
           /\ (\A i \in 1..Len(V) : V[i].ret = "nil" \/ (V[i].ret = "skip" /\ isDir(i)))
                => \A n \in TreeUnder(pid, root) :
                      (\A a \in DirPathClosure(Dir(n)) :
                            (AtOrAbove(root, a) /\ a # n) => ~ClosedInWalk(a))
                        => \E i \in 1..Len(V) : V[i].path = n
           /\ \A i \in 1..Len(V) :
                V[i].ret = "err" => (i = Len(V) /\ scp.err = ErrFn)

\* C27, without a listing that fails: the walks in which the store lists every
\* directory fn lets WalkDir enter.
WalkIsPreOrderWhenListed ==
    (WalkReturned /\ \A i \in 1..Len(scp.visits) :
                        scp.visits[i].withErr => scp.visits[i].nilEntry)
        => WalkIsPreOrder

\* C27, its case: fn returned skip-dir for a directory that has a directory in
\* it, and was called for a path after it.
SkippedAndWentOn ==
    /\ WalkReturned
    /\ \E i \in 1..(Len(scp.visits) - 1) :
          /\ scp.visits[i].ret = "skip"
          /\ ~scp.visits[i].withErr
          /\ \E d \in dirs : d[1] = scp.project.ID /\ Dir(d[2]) = scp.visits[i].path
                                /\ d[2] # scp.visits[i].path

\* A WalkDir has returned whose lookup of the root directory failed: the
\* handler has its project, and the project has no directory at the path.
RootLookupFailed ==
    /\ scp.cb = "WalkDir" /\ ~scp.panicked /\ ~scp.fatal
    /\ scp.project # NilProject
    /\ ~GetDirByPath(scp.project.ID, RemoveProjectSlugFromPath(scp.path, scp.project.Slug))

\* C28: when GetDirByPath fails for the root of the walk, WalkDir has called fn
\* once, with the path, a nil entry and an error, and has listed no directory
\* when it returns.
RootFailureVisitedOnce ==
    RootLookupFailed =>
        /\ Len(scp.visits) = 1
        /\ scp.visits[1].path = RemoveProjectSlugFromPath(scp.path, scp.project.Slug)
        /\ scp.visits[1].nilEntry
        /\ scp.visits[1].withErr
        /\ scp.listed = {}

\* C28, its case: a walk of /p/x, which the project does not have, returned the
\* error of fn.
WalkedMissingRoot ==
    /\ RootLookupFailed
    /\ scp.path = <<"/", "p", "/", "x">>
    /\ scp.err = ErrFn

\* The path in the project of the request the SCP handler answered last.
ScpInProject == RemoveProjectSlugFromPath(scp'.path, scp'.project.Slug)

\* This step is a Write that returned a nil error for a file whose directory
\* the project did not have.
WroteIntoNewDir ==
    /\ scp'.cb = "Write" /\ ~scp'.panicked /\ scp'.err = Nil
    /\ Len(handles') = Len(handles) + 1
    /\ ~GetDirByPath(scp'.project.ID, Dir(ScpInProject))

\* After the step the project has every directory above the file, and the new
\* row of the file is in its directory.
MadeDirsAndRow ==
    /\ \A d \in DirPathClosure(Dir(ScpInProject)) : <<scp'.project.ID, d>> \in dirs'
    /\ Len(rows') = Len(rows) + 1
    /\ rows'[Len(rows')].project = scp'.project.ID
    /\ rows'[Len(rows')].dir = Dir(ScpInProject)
    /\ rows'[Len(rows')].name = Base(scp'.path)

\* After the step the new row is current, its physical file is on disk, and its
\* checksum is that of the bytes of the stream.
RowCommitted ==
    /\ rows'[Len(rows')].current
    /\ UnderlyingFilePath(rows'[Len(rows')], McfsRoot) \in DOMAIN disk'
    /\ rows'[Len(rows')].checksum = Checksum(handles'[Len(handles')].sent)

\* C29: when Write has returned for a file in a directory the project did not
\* have, the project has every directory on the path and a new row for the file
\* in its directory, and the row is current, its physical file is on disk, and
\* its checksum is the MD5 of the bytes of the stream.
WriteMakesDirsAndCommits ==
    [][WroteIntoNewDir => (MadeDirsAndRow /\ RowCommitted)]_vars

\* C29, where the upload went through: when io.Copy moved the whole stream and
\* DoneWritingToFile succeeded.
WriteMakesDirsAndCommitsWhenDone ==
    [][(/\ WroteIntoNewDir
        /\ ~handles'[Len(handles')].failed
        /\ handles'[Len(handles')].doneOk) => (MadeDirsAndRow /\ RowCommitted)]_vars

\* C29, the directories and the row alone.
WriteMakesDirsAndRow == [][WroteIntoNewDir => MadeDirsAndRow]_vars

\* A Write whose stream the client broke off part-way has returned: io.Copy
\* moved fewer bytes than the stream had, and the tee read no more than those.
StreamBrokeOff(i) ==
    /\ handles[i].via = "scp"
    /\ handles[i].failed
    /\ Len(handles[i].hasher) < Len(handles[i].sent)

\* C30: when the stream of a Write breaks off part-way, Write calls
\* DoneWritingToFile with the checksum and the count of the bytes copied, the
\* file is closed, and Write returns that count with a nil error.
StreamFailureStillCloses ==
    /\ [](\A i \in DOMAIN handles :
            StreamBrokeOff(i) =>
                /\ handles[i].doneWith = [checksum |-> Checksum(handles[i].hasher),
                                          size |-> Len(handles[i].hasher)]
                /\ handles[i].doneOk =>
                      /\ rows[handles[i].file.id].size = Len(handles[i].hasher)
                      /\ rows[handles[i].file.id].checksum = Checksum(handles[i].hasher)
                /\ ~handles[i].isOpen)
    /\ [][(Len(handles') = Len(handles) + 1 /\ StreamBrokeOff(Len(handles))')
            => (/\ scp'.cb = "Write"
                /\ scp'.err = Nil
                /\ scp'.written = Len(handles'[Len(handles')].hasher))]_vars

\* C30, its case: a Write whose stream broke off has returned, and its
\* DoneWritingToFile went through.
WroteBrokenStream ==
    \E i \in DOMAIN handles : StreamBrokeOff(i) /\ handles[i].doneOk /\ scp.cb = "Write"

\* C24: a Fileread without the read flag and a Filewrite without the write flag
\* return the Invalid error without a step of the resolver and without a call
\* of the store, and the step changes neither the caches of the session nor the
\* Repository.
RejectsBeforeResolving ==
    /\ [](\A t \in Workers :
             OpenedWithoutFlag(t) =>
                 /\ workers[t].err = ErrInvalid
                 /\ workers[t].calls = 0 /\ workers[t].why = ""
                 /\ workers[t].project = NilProject /\ workers[t].handle = 0)
    /\ [][\A t \in Workers :
              workers'[t] # workers[t] /\ ~workers'[t].flag
              /\ workers'[t].cb \in {"Fileread", "Filewrite"}
                  => UNCHANGED <<cacheVars, histVars, repoVars>>]_vars

\* C24, its case: a Filewrite without the write flag has returned in a session
\* that has resolved the project of its path before.
WriteWithoutFlag ==
    \E t \in Workers :
        /\ OpenedWithoutFlag(t) /\ workers[t].cb = "Filewrite"
        /\ workers[t].sawResolved

\* Worker t returns from the Filewrite of a path whose directory is no logical
\* directory of its project.
OpensInMissingDir(t) ==
    /\ workers[t].pc = "body" /\ workers[t].cb = "Filewrite" /\ workers'[t].pc = "done"
    /\ ~GetDirByPath(workers[t].project.ID, Dir(getPathFromRequest(workers[t].path)))

\* C25: a Filewrite on a path whose parent is no logical directory of the
\* project returns "does not exist" and creates no directory, no file row and
\* no physical file.
NoParentNoFile ==
    [][\A t \in Workers :
          OpensInMissingDir(t) =>
              /\ workers'[t].err = ErrNotExist /\ workers'[t].handle = 0
              /\ UNCHANGED <<dirs, rows, disk, handles>>]_vars

\* C25, its case: a Filewrite of /p/d/f has returned in a session that can
\* access p, and p has no directory /d.
OpenedInMissingDir ==
    /\ workers["w1"].pc = "done" /\ workers["w1"].cb = "Filewrite" /\ workers["w1"].flag
    /\ workers["w1"].path = <<"/", "p", "/", "d", "/", "f">>
    /\ workers["w1"].why \in {"cached", "looked up"}
    /\ ~GetDirByPath(ProjectID(<<"p">>), <<"/", "d">>)
    /\ workers["w1"].err = ErrNotExist /\ rows = OldRows /\ handles = <<>>

\* This step is an SCP Write whose io.Copy into the physical file failed.
ScpCopyFailed ==
    /\ Len(handles') = Len(handles) + 1
    /\ handles'[Len(handles')].via = "scp"
    /\ handles'[Len(handles')].failed

\* This step is worker t's Filewrite in which os.MkdirAll or os.Create failed:
\* the row was made and no file was opened.
SftpCreateFailed(t) ==
    /\ workers[t].pc = "body" /\ workers[t].cb = "Filewrite"
    /\ workers'[t].pc = "done"
    /\ Len(rows') = Len(rows) + 1
    /\ handles' = handles

\* C31, the SFTP open for write alone: a Filewrite whose os.MkdirAll or
\* os.Create failed returns an error.
SftpOsErrorsSurfaced ==
    [][\A t \in Workers : SftpCreateFailed(t) => workers'[t].err # Nil]_vars

\* C31: an error of the OS filesystem in a callback other than close is an
\* error result of the callback: a Filewrite whose os.MkdirAll or os.Create
\* failed returns an error, and so does an SCP Write whose copy of the stream
\* into the file failed.
OsErrorsSurfaced ==
    [][/\ \A t \in Workers : SftpCreateFailed(t) => workers'[t].err # Nil
       /\ ScpCopyFailed => (scp'.cb = "Write" /\ scp'.err # Nil)]_vars

\* The path a call of the path helpers was made with.
CodecPath == <<"/">> \o codec.S \o codec.P

\* The first segment of the canonical form of a path.
CanonicalSlug(path) == Split(Clean(path))[2]

\* The canonical form of a path without its first segment: "/" when nothing
\* follows the segment.
CanonicalRest(path) ==
    LET segs == Split(Clean(path))
    IN IF Len(segs) <= 2 THEN <<"/">>
       ELSE <<"/">> \o JoinSegs(SubSeq(segs, 3, Len(segs)))

\* C32: the slug taken from a path is the first segment of the canonical form
\* of the path, and the in-project path is what follows that segment in the
\* canonical form.
SplitCanonicalises ==
    codec.applied =>
        /\ codec.slug = CanonicalSlug(CodecPath)
        /\ codec.rest = CanonicalRest(CodecPath)

\* C32, for the paths that are canonical already.
SplitOfCanonicalPath ==
    (codec.applied /\ Clean(CodecPath) = CodecPath) =>
        /\ codec.slug = CanonicalSlug(CodecPath)
        /\ codec.rest = CanonicalRest(CodecPath)

----------------------------------------------------------------------------
(* The resolved-projects cache of an SFTP session, under Spec.              *)

\* This step is worker t's access check, and the check let the worker go on to
\* put its project into the cache.
PassedCheck(t) == workers[t].pc = "userCanAccess" /\ workers'[t].pc = "storeProject"

\* This step puts a project into the cache for slug s.
Inserted(s) ==
    /\ s \in DOMAIN projects'
    /\ s \notin DOMAIN projects \/ projects'[s] # projects[s]

\* C33: a project is put into the resolved-projects cache by a callback that
\* asked the store for the slug, got that project, and asked the store whether
\* the user can access it; the callback goes from the check to the cache only
\* when the store holds the user's access at the check; and a project that
\* getProject returns is the cache's project for the slug of the request.
CachedAfterAccessCheck ==
    /\ [](\A t \in Workers :
            (workers[t].pc = "body" /\ workers[t].why \in {"cached", "looked up"}) =>
                /\ SlugOf(workers[t]) \in DOMAIN projects
                /\ workers[t].project = projects[SlugOf(workers[t])])
    /\ [](\A s \in DOMAIN projects : projects[s] = Project(s) /\ lookups[s] >= 1)
    /\ [][\A t \in Workers : PassedCheck(t) => workers[t].project.Slug \in storeAccess]_vars
    /\ [][\A s \in AllSlugs :
            Inserted(s) =>
                \E t \in Workers :
                    /\ workers[t].pc = "storeProject"
                    /\ SlugOf(workers[t]) = s
                    /\ workers[t].calls = 2
                    /\ workers[t].project = Project(s)
                    /\ projects'[s] = workers[t].project]_vars

\* C33, its case: a callback was given the project of the cache for a slug, and
\* the user's access to the project has been revoked since it was put there.
ServedFromCache ==
    \E t \in Workers :
        /\ workers[t].pc = "body" /\ workers[t].why = "cached"
        /\ SlugOf(workers[t]) \notin storeAccess

----------------------------------------------------------------------------
(* The physical files of committed rows, under SpecScpWrite.               *)

----------------------------------------------------------------------------
(* The removal of the file an SCP Write wrote, under SpecScpDone.          *)

\* The physical file the Write of handle i wrote is no longer on disk.
WrittenFileRemoved(i) ==
    handles[i].via = "scp" /\ <<McfsRoot, handles[i].file.uuid>> \notin DOMAIN disk

\* C35: the file an SCP Write wrote is removed only when DoneWritingToFile
\* reported a duplicate and returned no error; when DoneWritingToFile returned
\* an error the file is on disk.
RemovedOnlyWhenDuplicate ==
    \A i \in DOMAIN handles :
        WrittenFileRemoved(i) => (handles[i].duplicate /\ handles[i].doneOk)

----------------------------------------------------------------------------
(* Opens for write that fail, under SpecOpen (SFTP) and SpecScpWrite (SCP). *)

\* This step is the return of worker t's Filewrite with an error.
FilewriteFailed(t) ==
    /\ workers[t].pc # "done" /\ workers'[t].pc = "done"
    /\ workers'[t].cb = "Filewrite"
    /\ workers'[t].err # Nil

\* This step is an SCP Write that returned an error: it did not get to the copy
\* of the stream.
ScpWriteFailed == scp' # scp /\ scp'.cb = "Write" /\ ~scp'.panicked /\ scp'.err # Nil

\* C36, SCP alone: a Write that returns an error leaves the rows and the
\* physical files as they were.
ScpFailedOpenLeavesNothing == [][ScpWriteFailed => (rows' = rows /\ disk' = disk)]_vars

\* C36: a Filewrite that returns an error, and an SCP Write that returns an
\* error, leave the rows and the physical files as they were.
FailedOpenLeavesNothing ==
    [][/\ \A t \in Workers : FilewriteFailed(t) => (rows' = rows /\ disk' = disk)
       /\ ScpWriteFailed => (rows' = rows /\ disk' = disk)]_vars

----------------------------------------------------------------------------
(* The in-project path, under SpecPath.                                    *)

\* C37: the path RemoveProjectSlugFromPath returns for an absolute path and a
\* slug begins with "/".
StripIsAbsolute == codec.applied => (codec.rest # <<>> /\ codec.rest[1] = "/")

\* C37, for the paths whose canonical form has the slug as its first segment,
\* or does not begin with the characters of "/" and the slug.
StripIsAbsoluteForOwnSlug ==
    (codec.applied /\ (CanonicalSlug(CodecPath) = codec.S
                       \/ ~HasPrefix(Clean(CodecPath), <<"/">> \o codec.S)))
        => (codec.rest # <<>> /\ codec.rest[1] = "/")

----------------------------------------------------------------------------
(* SFTP and SCP uploads compared, under SpecUploadBoth.                    *)

\* The upload of handle i went through: every byte of the stream was written,
\* in order, the file was closed, and Stat, DoneWritingToFile and a remove, if
\* there was one, succeeded.
WentThrough(i) ==
    /\ i \in Uploaded
    /\ ~handles[i].failed /\ handles[i].inOrder
    /\ handles[i].hasher = handles[i].sent
    /\ handles[i].statOk /\ handles[i].doneOk /\ handles[i].removeOk

\* What an upload of a byte sequence leaves in the Repository, whichever way it
\* came: the row is current with the size and checksum of the bytes, and the
\* physical file the upload wrote is on disk unless the row was pointed at the
\* physical file of a committed file with the same bytes.
OutcomeOfBytes(row, bytes) ==
    /\ row.current
    /\ row.size = Len(bytes)
    /\ row.checksum = Checksum(bytes)
    /\ (row.usesUuid # 0) = (\E j \in 1..Len(rows) :
                                /\ j # row.id /\ rows[j].current /\ rows[j].usesUuid = 0
                                /\ rows[j].checksum = Checksum(bytes))
    /\ (<<McfsRoot, row.uuid>> \in DOMAIN disk) = (row.usesUuid = 0)

\* C38: an upload that went through leaves the row and the physical files that
\* its bytes determine, the same through SFTP as through SCP.
SameOutcomeBothWays ==
    \A i \in DOMAIN handles :
        WentThrough(i) => OutcomeOfBytes(rows[handles[i].file.id], handles[i].sent)

\* C38, SCP alone.
ScpOutcome ==
    \A i \in DOMAIN handles :
        (WentThrough(i) /\ handles[i].via = "scp")
            => OutcomeOfBytes(rows[handles[i].file.id], handles[i].sent)

\* C38, the uploads whose bytes no committed file has.
SameOutcomeWithoutDuplicate ==
    \A i \in DOMAIN handles :
        (WentThrough(i) /\ rows[handles[i].file.id].usesUuid = 0)
            => OutcomeOfBytes(rows[handles[i].file.id], handles[i].sent)

\* An SFTP upload of bytes a committed file already has went through.
SftpDuplicateWentThrough ==
    \E i \in DOMAIN handles :
        /\ WentThrough(i) /\ handles[i].via = "sftp"
        /\ rows[handles[i].file.id].usesUuid # 0

\* An SCP upload of bytes a committed file already has went through.
ScpDuplicateWentThrough ==
    \E i \in DOMAIN handles :
        /\ WentThrough(i) /\ handles[i].via = "scp"
        /\ rows[handles[i].file.id].usesUuid # 0

----------------------------------------------------------------------------
(* The fields of the SCP handler.                                          *)

\* The flag and a project are not both set.
FatalExcludesProject == ~(scp.fatal /\ scp.project # NilProject)

\* A project is loaded only with a user.
ProjectNeedsUser == scp.project # NilProject => scp.user

\* The flag stays set; a user and a project, once loaded, stay what they are.
HandlerFieldsKept ==
    /\ scp.fatal => scp'.fatal
    /\ scp.user => scp'.user /\ scp'.uid = scp.uid
    /\ scp.project # NilProject => scp'.project = scp.project

\* C39: in every state of an SCP handler the fatal-error flag and a loaded
\* project are not both set, a project is loaded only when a user is, the flag
\* is never cleared, and a loaded user and a loaded project never change.
HandlerLoadsOnce ==
    /\ [](FatalExcludesProject /\ ProjectNeedsUser)
    /\ [][HandlerFieldsKept]_vars

\* C39, the last two conjuncts alone: they hold with connections at one time too.
HandlerKeepsWhatItLoaded ==
    /\ []ProjectNeedsUser
    /\ [][HandlerFieldsKept]_vars

\* Two calls were under way and one loaded the project.
LoadedWhileOtherLoads ==
    /\ scp.project # NilProject
    /\ \E c \in Conns : loaders[c].pc = "assign"

====
